---------------------------- MODULE Spec2Model ----------------------------
(***************************************************************************)
(* Idea Factory: the express server (routes of server/index.ts, bundled   *)
(* in src/server/services/enrichment.ts from line 122 on), the record     *)
(* store accessors saveEnrichment/getEnrichment, saveEvaluation/          *)
(* getEvaluation and the router routeIdea.                                 *)
(*                                                                         *)
(* Each POST /api/ideas/:id/{enrich,evaluate,analyze} handler is one       *)
(* atomic step: it reads the store, answers the caller and starts a        *)
(* detached async closure.  The closure runs up to its first await inside  *)
(* the handler, so a started task already waits on its first executor.     *)
(* Every later await of the closure is one task step.                      *)
(*                                                                         *)
(* Environment: the executors (enrichIdea, evaluateIdea) return any of a   *)
(* small set of outputs or throw.  A store write issued by db.run may      *)
(* reject (constraint, lock, disk); store reads succeed.                   *)
(***************************************************************************)
EXTENDS Integers, FiniteSets, Sequences, Bags, TLC

(* ----------------------------- bounds --------------------------------- *)

\* Idea ids the uuid generator can hand out: 1..MaxIdeas.
MaxIdeas == 2

\* Run requests (enrich, evaluate, analyze) accepted over a behaviour.
MaxRuns == 2

\* GET requests served at a time.
MaxReads == 1

\* Scores tried by the router range over -ScoreMargin..MaxScore+ScoreMargin.
ScoreMargin == 5

\* Upserts of one record (enrichment or evaluation) made through the store
\* functions called on their own.
MaxSaves == 2

(* ------------------------- program constants -------------------------- *)

\* ROUTING_THRESHOLDS
BUILD_NOW == 80

BUILD_LATER == 60

RESEARCH == 40

ARCHIVE == 0

\* Upper end of the evaluationScore scale the evaluator is asked for.
MaxScore == 100

(* ------------------------------ values -------------------------------- *)

IdeaIds == 1..MaxIdeas

\* An id no idea ever gets: a request for it finds no row.
UnknownId == MaxIdeas + 1


\* A local of a closure before its assignment.
Unset == [unset |-> TRUE]

\* req.body fields of POST /api/ideas; "" and the missing field are both falsy.
Missing == "undefined"

RawTexts == {"Build a tool", "", Missing}

Contexts == {"side project"}

ProjectHints == {Missing}

\* `x || null` of the insert parameters.
OrNull(x) == IF x \in {"", Missing} THEN "null" ELSE x

Recommendations == {"build-now", "build-later", "partner", "skip"}

Routes == {"GENERATE_BLUEPRINT", "DEFER_WITH_BLUEPRINT", "NEEDS_VALIDATION", "ARCHIVE_WITH_LEARNING"}

Statuses == {"pending", "enriched", "evaluated-ready", "deferred", "research", "archived"}

\* JSON.stringify / JSON.parse of a plain value: the text wraps the value.
JSONstringify(value) == [json |-> value]

JSONparse(text) == text.json

\* EnrichmentOutput; complexityScore is counted in tenths.
EnrichmentOutput(category, complexityScore) ==
    [category |-> category, complexityScore |-> complexityScore,
     marketValidation |-> [competitors |-> <<"rival">>, marketGap |-> "gap"],
     technicalFeasibility |->
        [stackFit |-> "good", dependencies |-> <<"sqlite">>, riskFactors |-> <<>>],
     resourceEstimate |-> [estimatedHours |-> 8, skillsRequired |-> <<"ts">>]]

\* Outputs the enrichment executor may return.
EnrichmentOutputs == {EnrichmentOutput("feature", 3), EnrichmentOutput("product", 7)}

\* EvaluationOutput; disruptionScore is counted in tenths.
EvaluationOutput(score, recommendation) ==
    [jtbdAnalysis |-> "job", disruptionScore |-> 5, capabilitiesFit |-> "strong",
     recommendation |-> recommendation, caseStudyMatches |-> <<"steel">>,
     evaluationScore |-> score, rationale |-> "why"]

\* Outputs the evaluation executor may return: one per route.
EvaluationOutputs ==
    { EvaluationOutput(90, "build-now"), EvaluationOutput(85, "skip"),
      EvaluationOutput(59, "build-later"), EvaluationOutput(30, "skip") }

(* ------------------------------- state -------------------------------- *)

VARIABLES
    ideas,        \* table ideas: id -> row, DOMAIN = the ids stored
    enrichments,  \* table idea_enrichment: idea_id -> row
    evaluations,  \* table idea_evaluation: idea_id -> row
    tasks,        \* bag of detached closures in flight
    runs,         \* per idea id, the run requests accepted so far
    ev,           \* what the server's last step emitted (response or console)
    call,         \* a call of a pure function: arguments and result
    reads,        \* GET requests being served: what each has read so far
    ui            \* the browser: App's and its IdeaCards' state, its fetches

vars == <<ideas, enrichments, evaluations, tasks, runs, ev, call, reads, ui>>

store == <<ideas, enrichments, evaluations>>

NoCall == [fn |-> "none"]

\* No browser has the UI open.
NoUI == [mounted |-> FALSE]

(* ------------------------------ router -------------------------------- *)

\* routeIdea with rule 1 exclusive at its threshold.
routeIdeaExclusive(evaluationScore, recommendation) ==
    IF evaluationScore > BUILD_NOW /\ recommendation = "build-now"
    THEN "GENERATE_BLUEPRINT"
    ELSE IF evaluationScore >= BUILD_LATER
    THEN "DEFER_WITH_BLUEPRINT"
    ELSE IF evaluationScore >= RESEARCH
    THEN "NEEDS_VALIDATION"
    ELSE "ARCHIVE_WITH_LEARNING"

\* routeIdea with rule 1 a pure score threshold.
routeIdeaScoreOnly(evaluationScore, recommendation) ==
    IF evaluationScore >= BUILD_NOW
    THEN "GENERATE_BLUEPRINT"
    ELSE IF evaluationScore >= BUILD_LATER
    THEN "DEFER_WITH_BLUEPRINT"
    ELSE IF evaluationScore >= RESEARCH
    THEN "NEEDS_VALIDATION"
    ELSE "ARCHIVE_WITH_LEARNING"

\* routeIdea with rule 3 exclusive at its threshold.
routeIdeaResearchExclusive(evaluationScore, recommendation) ==
    IF evaluationScore >= BUILD_NOW /\ recommendation = "build-now"
    THEN "GENERATE_BLUEPRINT"
    ELSE IF evaluationScore >= BUILD_LATER
    THEN "DEFER_WITH_BLUEPRINT"
    ELSE IF evaluationScore > RESEARCH
    THEN "NEEDS_VALIDATION"
    ELSE "ARCHIVE_WITH_LEARNING"

routeIdea(evaluationScore, recommendation) ==
    IF evaluationScore >= BUILD_NOW /\ recommendation = "build-now"
    THEN "GENERATE_BLUEPRINT"
    ELSE IF evaluationScore >= BUILD_LATER
    THEN "DEFER_WITH_BLUEPRINT"
    ELSE IF evaluationScore >= RESEARCH
    THEN "NEEDS_VALIDATION"
    ELSE "ARCHIVE_WITH_LEARNING"

\* newStatus with the two middle branches exchanged.
newStatusExchanged(route) ==
    IF route = "GENERATE_BLUEPRINT" THEN "evaluated-ready"
    ELSE IF route = "DEFER_WITH_BLUEPRINT" THEN "research"
    ELSE IF route = "NEEDS_VALIDATION" THEN "deferred"
    ELSE "archived"

\* The conditional chain of the evaluate and analyze closures.
newStatus(route) ==
    IF route = "GENERATE_BLUEPRINT" THEN "evaluated-ready"
    ELSE IF route = "DEFER_WITH_BLUEPRINT" THEN "deferred"
    ELSE IF route = "NEEDS_VALIDATION" THEN "research"
    ELSE "archived"

(* --------------------------- store access ----------------------------- *)

\* db.get('SELECT * FROM ideas WHERE id = ?'): the row, or nothing.
FindIdea(id) == id \in DOMAIN ideas

\* The row saveEnrichment binds to its INSERT OR REPLACE, written at time at.
EnrichmentRow(enrichment, at) ==
    [category |-> enrichment.category,
     complexity_score |-> enrichment.complexityScore,
     market_validation |-> JSONstringify(enrichment.marketValidation),
     technical_feasibility |-> JSONstringify(enrichment.technicalFeasibility),
     resource_estimate |-> JSONstringify(enrichment.resourceEstimate),
     enriched_at |-> at,
     enriched_by |-> "gemini-1.5-flash"]

\* null when the idea has no row, else the row's columns renamed and parsed.
getEnrichment(id) ==
    IF id \in DOMAIN enrichments
    THEN [category |-> enrichments[id].category,
          complexityScore |-> enrichments[id].complexity_score,
          marketValidation |-> JSONparse(enrichments[id].market_validation),
          technicalFeasibility |-> JSONparse(enrichments[id].technical_feasibility),
          resourceEstimate |-> JSONparse(enrichments[id].resource_estimate)]
    ELSE Unset

\* EvaluationRow with rationale bound to the jtbd_analysis column, so that
\* getEvaluation's rationale is the one saved.
EvaluationRowKeepsRationale(evaluation, at) ==
    [jtbd_analysis |-> evaluation.rationale,
     disruption_score |-> evaluation.disruptionScore,
     capabilities_fit |-> evaluation.capabilitiesFit,
     strategic_recommendation |-> evaluation.recommendation,
     case_study_matches |-> JSONstringify(evaluation.caseStudyMatches),
     evaluation_score |-> evaluation.evaluationScore,
     evaluated_at |-> at]

\* The row saveEvaluation binds, written at time at: rationale is not among
\* the columns.
EvaluationRow(evaluation, at) ==
    [jtbd_analysis |-> evaluation.jtbdAnalysis,
     disruption_score |-> evaluation.disruptionScore,
     capabilities_fit |-> evaluation.capabilitiesFit,
     strategic_recommendation |-> evaluation.recommendation,
     case_study_matches |-> JSONstringify(evaluation.caseStudyMatches),
     evaluation_score |-> evaluation.evaluationScore,
     evaluated_at |-> at]

\* null when the idea has no row; rationale is read from jtbd_analysis.
getEvaluation(id) ==
    IF id \in DOMAIN evaluations
    THEN [jtbdAnalysis |-> evaluations[id].jtbd_analysis,
          disruptionScore |-> evaluations[id].disruption_score,
          capabilitiesFit |-> evaluations[id].capabilities_fit,
          recommendation |-> evaluations[id].strategic_recommendation,
          caseStudyMatches |-> JSONparse(evaluations[id].case_study_matches),
          evaluationScore |-> evaluations[id].evaluation_score,
          rationale |-> evaluations[id].jtbd_analysis]
    ELSE Unset

\* Upsert as an update in place that leaves two columns of a stored row.
UpsertMerges(table, id, row) ==
    [k \in DOMAIN table \cup {id} |->
       IF k # id THEN table[k]
       ELSE IF id \notin DOMAIN table THEN row
       ELSE [f \in DOMAIN row |->
               IF f \in {"category", "strategic_recommendation"}
               THEN table[id][f] ELSE row[f]]]

\* Upsert as INSERT OR IGNORE: a row already stored under the key stays.
UpsertIgnore(table, id, row) ==
    [k \in DOMAIN table \cup {id} |-> IF k \in DOMAIN table THEN table[k] ELSE row]

\* INSERT OR REPLACE by primary key idea_id: the whole row is replaced.
Upsert(table, id, row) ==
    [k \in DOMAIN table \cup {id} |-> IF k = id THEN row ELSE table[k]]

\* Now with the time read from the row instead of the clock.
NowFromRow(id) == IF id \in DOMAIN ideas THEN ideas[id].updated_at ELSE 0

\* new Date() / CURRENT_TIMESTAMP, read per row: time is counted in the
\* writes of the row, and a later write of the row reads a later time.
Now(id) == IF id \in DOMAIN ideas THEN ideas[id].updated_at + 1 ELSE 0

\* UpdateStatus as INSERT OR REPLACE INTO ideas (id, status, updated_at): the
\* columns it does not bind are lost.
UpdateStatusReplacesRow(id, status, at) ==
    IF id \in DOMAIN ideas
    THEN [ideas EXCEPT ![id] = [source |-> "null", raw_text |-> "null",
                                context |-> "null", project_hint |-> "null",
                                status |-> status,
                                created_at |-> at, updated_at |-> at]]
    ELSE ideas

\* UpdateStatus without its WHERE clause.
UpdateStatusEveryRow(id, status, at) ==
    [k \in DOMAIN ideas |-> [ideas[k] EXCEPT !.status = status, !.updated_at = at]]

\* UpdateStatus without the updated_at column in its SET list.
UpdateStatusKeepsTime(id, status, at) ==
    IF id \in DOMAIN ideas
    THEN [ideas EXCEPT ![id].status = status]
    ELSE ideas

\* new Date() as saveEnrichment reads it: later than the row it replaces.
EnrichedAt(id) ==
    IF id \in DOMAIN enrichments THEN enrichments[id].enriched_at + 1 ELSE 1

\* new Date() as saveEvaluation reads it: later than the row it replaces.
EvaluatedAt(id) ==
    IF id \in DOMAIN evaluations THEN evaluations[id].evaluated_at + 1 ELSE 1

\* UPDATE ideas SET status = ?, updated_at = ? WHERE id = ?
UpdateStatus(id, status, at) ==
    IF id \in DOMAIN ideas
    THEN [ideas EXCEPT ![id].status = status, ![id].updated_at = at]
    ELSE ideas

\* The :id of a request: a stored idea's, or one that finds no row.
RequestIds == DOMAIN ideas \cup {UnknownId}

\* FreshIds with ids that stored ideas have.
FreshIdsReused == IdeaIds

\* uuidv4(): an id no stored idea has (the least one, ids being opaque).
FreshIds ==
    {id \in IdeaIds \ DOMAIN ideas : \A other \in IdeaIds \ DOMAIN ideas : id <= other}

(* ------------------------------- tasks -------------------------------- *)

\* A detached closure: its kind, the idea it captured, the await it stands
\* at (pc), its locals, and what it has done so far: the executors it has
\* invoked and the tables it has written, in order.
Task(kind, id, pc, enrichment) ==
    [kind |-> kind, id |-> id, pc |-> pc,
     enrichment |-> enrichment, evaluation |-> Unset,
     invoked |-> <<pc>>, wrote |-> <<>>]

InFlight == BagToSet(tasks)

\* Number of closures in flight for idea id.
InFlightFor(id) ==
    LET mine == {t \in InFlight : t.id = id}
    IN  BagCardinality([t \in mine |-> tasks[t]])

TotalRuns == BagCardinality(runs)

Start(t) == tasks (+) SetToBag({t})

Replace(t, u) == (tasks (-) SetToBag({t})) (+) SetToBag({u})

Finish(t) == tasks (-) SetToBag({t})

Response(op, id, code, status) ==
    [type |-> "response", op |-> op, id |-> id, code |-> code, status |-> status]

\* console.log / console.error of a closure that ends.
Completed(t, route, status) ==
    [type |-> "log", kind |-> t.kind, id |-> t.id, ok |-> TRUE,
     route |-> route, status |-> status,
     invoked |-> t.invoked, wrote |-> Append(t.wrote, "ideas")]

Failed(t, error) ==
    [type |-> "log", kind |-> t.kind, id |-> t.id, ok |-> FALSE,
     error |-> error, invoked |-> t.invoked, wrote |-> t.wrote]

\* A step that answers nobody and ends no closure.
Quiet == [type |-> "none"]

(* -------------------------------- init -------------------------------- *)

Init ==
    /\ ideas = <<>>
    /\ enrichments = <<>>
    /\ evaluations = <<>>
    /\ tasks = EmptyBag
    /\ runs = EmptyBag
    /\ ev = [type |-> "listen"]
    /\ call = NoCall
    /\ reads = {}
    /\ ui = NoUI

(* ------------------------- request handlers --------------------------- *)

\* CreateIdea without the check of rawText.
CreateIdeaUnvalidated(rawText, context, projectHint) ==
    /\ UNCHANGED <<enrichments, evaluations, tasks, runs, call, ui, reads>>
    /\ \E ideaId \in FreshIds :
         /\ ideas' = Upsert(ideas, ideaId,
                [source |-> "manual", raw_text |-> rawText,
                 context |-> OrNull(context),
                 project_hint |-> OrNull(projectHint),
                 status |-> "pending",
                 created_at |-> Now(ideaId),
                 updated_at |-> Now(ideaId)])
         /\ ev' = Response("create", ideaId, 201, "pending")

\* POST /api/ideas
CreateIdea(rawText, context, projectHint) ==
    /\ UNCHANGED <<enrichments, evaluations, tasks, runs, call, ui, reads>>
    /\ IF rawText \in {"", Missing}
       THEN /\ ev' = Response("create", UnknownId, 400, "")
            /\ UNCHANGED ideas
       ELSE \E ideaId \in FreshIds :
              \/ /\ ideas' = Upsert(ideas, ideaId,
                        [source |-> "manual", raw_text |-> rawText,
                         context |-> OrNull(context),
                         project_hint |-> OrNull(projectHint),
                         status |-> "pending",
                         created_at |-> Now(ideaId),
                         updated_at |-> Now(ideaId)])
                 /\ ev' = Response("create", ideaId, 201, "pending")
              \/ /\ ev' = Response("create", UnknownId, 500, "")
                 /\ UNCHANGED ideas

\* Accept with the acknowledgment withheld.
AcceptUnacknowledged(op, id, status, task) ==
    /\ TotalRuns < MaxRuns
    /\ ev' = Quiet
    /\ tasks' = Start(task)
    /\ runs' = runs (+) SetToBag({id})

\* Accept with the closure started twice.
AcceptTwice(op, id, status, task) ==
    /\ TotalRuns < MaxRuns
    /\ ev' = Response(op, id, 200, status)
    /\ tasks' = tasks (+) SetToBag({task}) (+) SetToBag({task})
    /\ runs' = runs (+) SetToBag({id})

\* A run request is accepted: the acknowledgment, then the closure starts.
Accept(op, id, status, task) ==
    /\ TotalRuns < MaxRuns
    /\ ev' = Response(op, id, 200, status)
    /\ tasks' = Start(task)
    /\ runs' = runs (+) SetToBag({id})

\* 404 / 400: the handler returns before it starts anything.
Reject(op, id, code) ==
    /\ ev' = Response(op, id, code, "")
    /\ UNCHANGED <<tasks, runs>>

\* POST /api/ideas/:id/enrich
Enrich(id) ==
    /\ UNCHANGED <<store, call, ui, reads>>
    /\ IF ~FindIdea(id)
       THEN Reject("enrich", id, 404)
       ELSE Accept("enrich", id, "enriching",
                   Task("enrich", id, "enrichIdea", Unset))

\* Evaluate with the enrichment read checked before the idea read.
EvaluateEnrichmentFirst(id) ==
    /\ UNCHANGED <<store, call, ui, reads>>
    /\ IF getEnrichment(id) = Unset
       THEN Reject("evaluate", id, 400)
       ELSE IF ~FindIdea(id)
       THEN Reject("evaluate", id, 404)
       ELSE Accept("evaluate", id, "evaluating",
                   Task("evaluate", id, "evaluateIdea", getEnrichment(id)))

\* Evaluate without the check of the enrichment read.
EvaluateUnchecked(id) ==
    /\ UNCHANGED <<store, call, ui, reads>>
    /\ IF ~FindIdea(id)
       THEN Reject("evaluate", id, 404)
       ELSE Accept("evaluate", id, "evaluating",
                   Task("evaluate", id, "evaluateIdea", getEnrichment(id)))

\* POST /api/ideas/:id/evaluate
Evaluate(id) ==
    /\ UNCHANGED <<store, call, ui, reads>>
    /\ IF ~FindIdea(id)
       THEN Reject("evaluate", id, 404)
       ELSE IF getEnrichment(id) = Unset
       THEN Reject("evaluate", id, 400)
       ELSE Accept("evaluate", id, "evaluating",
                   Task("evaluate", id, "evaluateIdea", getEnrichment(id)))

\* Analyze with the handler marking the idea before it answers.
AnalyzeMarksIdea(id) ==
    /\ UNCHANGED <<enrichments, evaluations, call, ui, reads>>
    /\ IF ~FindIdea(id)
       THEN /\ Reject("analyze", id, 404)
            /\ UNCHANGED ideas
       ELSE /\ Accept("analyze", id, "analyzing",
                      Task("analyze", id, "enrichIdea", Unset))
            /\ ideas' = UpdateStatus(id, "enriched", Now(id))

\* POST /api/ideas/:id/analyze
Analyze(id) ==
    /\ UNCHANGED <<store, call, ui, reads>>
    /\ IF ~FindIdea(id)
       THEN Reject("analyze", id, 404)
       ELSE Accept("analyze", id, "analyzing",
                   Task("analyze", id, "enrichIdea", Unset))

(* ------------------------- detached closures -------------------------- *)

\* A closure holds enrichment, the argument of its saveEnrichment and
\* evaluateIdea calls, to its end.

\* The closure moves on to its next await.
Advance(t, u) ==
    /\ tasks' = Replace(t, u)
    /\ ev' = Quiet
    /\ UNCHANGED <<runs, call, ui, reads>>

\* Catch with a catch block that also marks the idea.
CatchMarksIdea(t, error) ==
    /\ tasks' = Finish(t)
    /\ ev' = Failed(t, error)
    /\ ideas' = UpdateStatus(t.id, "archived", Now(t.id))
    /\ UNCHANGED <<enrichments, evaluations, runs, call, ui, reads>>

\* The closure ends in its catch block.
Catch(t, error) ==
    /\ tasks' = Finish(t)
    /\ ev' = Failed(t, error)
    /\ UNCHANGED <<store, runs, call, ui, reads>>

\* EnrichIdeaReturns with the full pipeline calling evaluateIdea at once, its
\* saveEnrichment left for later.
EnrichIdeaReturnsThenEvaluates(t, enrichment) ==
    /\ t.pc = "enrichIdea"
    /\ Advance(t, IF t.kind = "analyze"
                  THEN [t EXCEPT !.pc = "evaluateIdea", !.enrichment = enrichment,
                                 !.invoked = Append(@, "evaluateIdea")]
                  ELSE [t EXCEPT !.pc = "saveEnrichment", !.enrichment = enrichment])
    /\ UNCHANGED store

\* await enrichIdea(idea.raw_text, idea.context) resolves
EnrichIdeaReturns(t, enrichment) ==
    /\ t.pc = "enrichIdea"
    /\ Advance(t, [t EXCEPT !.pc = "saveEnrichment", !.enrichment = enrichment])
    /\ UNCHANGED store

\* EnrichIdeaThrows with a catch block that stores a placeholder record.
EnrichIdeaThrowsStoresPlaceholder(t) ==
    /\ t.pc = "enrichIdea"
    /\ tasks' = Finish(t)
    /\ ev' = Failed(t, "enrichIdea")
    /\ enrichments' = Upsert(enrichments, t.id,
                        EnrichmentRow(EnrichmentOutput("research", 0), EnrichedAt(t.id)))
    /\ UNCHANGED <<ideas, evaluations, runs, call, ui, reads>>

\* EnrichIdeaThrows with the try block closed after step 1 of the full
\* pipeline: the failure is logged and step 2 goes on.
EnrichIdeaThrowsGoesOn(t) ==
    /\ t.pc = "enrichIdea"
    /\ IF t.kind = "analyze"
       THEN /\ tasks' = Replace(t, [t EXCEPT !.pc = "evaluateIdea",
                                     !.invoked = Append(@, "evaluateIdea")])
            /\ ev' = Failed(t, "enrichIdea")
            /\ UNCHANGED <<store, runs, call, ui, reads>>
       ELSE Catch(t, "enrichIdea")

\* await enrichIdea(...) rejects
EnrichIdeaThrows(t) ==
    /\ t.pc = "enrichIdea"
    /\ Catch(t, "enrichIdea")

\* SaveEnrichmentDone with the full pipeline going on to evaluateIdea
\* without its saveEnrichment call.
SaveEnrichmentSkippedInPipeline(t) ==
    /\ t.pc = "saveEnrichment"
    /\ IF t.kind = "enrich"
       THEN /\ enrichments' = Upsert(enrichments, t.id,
                                EnrichmentRow(t.enrichment, EnrichedAt(t.id)))
            /\ Advance(t, [t EXCEPT !.wrote = Append(@, "idea_enrichment"),
                                    !.pc = "updateStatus"])
       ELSE /\ enrichments' = enrichments
            /\ Advance(t, [t EXCEPT !.pc = "evaluateIdea",
                                    !.invoked = Append(@, "evaluateIdea")])
    /\ UNCHANGED <<ideas, evaluations>>

\* SaveEnrichmentDone with the full pipeline marking the idea enriched once
\* its enrichment is saved, as the enrich closure does at its end.
SaveEnrichmentDoneMarksEnriched(t) ==
    /\ t.pc = "saveEnrichment"
    /\ enrichments' = Upsert(enrichments, t.id,
                            EnrichmentRow(t.enrichment, EnrichedAt(t.id)))
    /\ Advance(t, IF t.kind = "enrich"
                  THEN [t EXCEPT !.wrote = Append(@, "idea_enrichment"),
                                 !.pc = "updateStatus"]
                  ELSE [t EXCEPT !.wrote = Append(@, "idea_enrichment"),
                                 !.pc = "evaluateIdea",
                                 !.invoked = Append(@, "evaluateIdea")])
    /\ ideas' = IF t.kind = "analyze"
                THEN UpdateStatus(t.id, "enriched", Now(t.id)) ELSE ideas
    /\ UNCHANGED evaluations

\* await saveEnrichment(db, id, enrichment) resolves
SaveEnrichmentDone(t) ==
    /\ t.pc = "saveEnrichment"
    /\ enrichments' = Upsert(enrichments, t.id,
                            EnrichmentRow(t.enrichment, EnrichedAt(t.id)))
    /\ Advance(t, IF t.kind = "enrich"
                  THEN [t EXCEPT !.wrote = Append(@, "idea_enrichment"),
                                 !.pc = "updateStatus"]
                  ELSE [t EXCEPT !.wrote = Append(@, "idea_enrichment"),
                                 !.pc = "evaluateIdea",
                                 !.invoked = Append(@, "evaluateIdea")])
    /\ UNCHANGED <<ideas, evaluations>>

\* EvaluateIdeaReturns with the closure reading the enrichment from the store
\* again once the call has resolved.
EvaluateIdeaReturnsRereads(t, evaluation) ==
    /\ t.pc = "evaluateIdea"
    /\ Advance(t, [t EXCEPT !.pc = "saveEvaluation", !.evaluation = evaluation,
                            !.enrichment = getEnrichment(t.id)])
    /\ UNCHANGED store

\* await evaluateIdea(idea.raw_text, enrichment) resolves
EvaluateIdeaReturns(t, evaluation) ==
    /\ t.pc = "evaluateIdea"
    /\ Advance(t, [t EXCEPT !.pc = "saveEvaluation", !.evaluation = evaluation])
    /\ UNCHANGED store

\* EvaluateIdeaThrows with one more call of evaluateIdea after the first
\* rejection.
EvaluateIdeaThrowsRetries(t) ==
    /\ t.pc = "evaluateIdea"
    /\ IF Len(t.invoked) < 3
       THEN /\ tasks' = Replace(t, [t EXCEPT !.invoked = Append(@, "evaluateIdea")])
            /\ ev' = Quiet
            /\ UNCHANGED <<store, runs, call, ui, reads>>
       ELSE Catch(t, "evaluateIdea")

\* EvaluateIdeaThrows with a catch block that puts the idea back to enriched.
EvaluateIdeaThrowsResets(t) ==
    /\ t.pc = "evaluateIdea"
    /\ tasks' = Finish(t)
    /\ ev' = Failed(t, "evaluateIdea")
    /\ ideas' = UpdateStatus(t.id, "enriched", Now(t.id))
    /\ UNCHANGED <<enrichments, evaluations, runs, call, ui, reads>>

\* await evaluateIdea(...) rejects
EvaluateIdeaThrows(t) ==
    /\ t.pc = "evaluateIdea"
    /\ Catch(t, "evaluateIdea")

\* SaveEvaluationDone without the saveEvaluation call.
SaveEvaluationSkipped(t) ==
    /\ t.pc = "saveEvaluation"
    /\ evaluations' = evaluations
    /\ Advance(t, [t EXCEPT !.wrote = Append(@, "idea_evaluation"),
                            !.pc = "updateStatus"])
    /\ UNCHANGED <<ideas, enrichments>>

\* await saveEvaluation(db, id, evaluation) resolves
SaveEvaluationDone(t) ==
    /\ t.pc = "saveEvaluation"
    /\ evaluations' = Upsert(evaluations, t.id,
                            EvaluationRow(t.evaluation, EvaluatedAt(t.id)))
    /\ Advance(t, [t EXCEPT !.wrote = Append(@, "idea_evaluation"),
                            !.pc = "updateStatus"])
    /\ UNCHANGED <<ideas, enrichments>>

\* The route of a closure's own evaluation ("" in the enrich closure).
RouteOf(t) ==
    IF t.kind = "enrich" THEN ""
    ELSE routeIdea(t.evaluation.evaluationScore, t.evaluation.recommendation)

\* StatusOf with the enrich closure's UPDATE pasted into the others.
StatusOfEnriched(t) == "enriched"

\* The status a closure writes with its UPDATE.
StatusOf(t) ==
    IF t.kind = "enrich" THEN "enriched" ELSE newStatus(RouteOf(t))

\* await db.run('UPDATE ideas SET status = ?, updated_at = ? ...') resolves
UpdateStatusDone(t) ==
    /\ t.pc = "updateStatus"
    /\ ideas' = UpdateStatus(t.id, StatusOf(t), Now(t.id))
    /\ tasks' = Finish(t)
    /\ ev' = Completed(t, RouteOf(t), StatusOf(t))
    /\ UNCHANGED <<enrichments, evaluations, runs, call, ui, reads>>

\* StoreRejects with the closure logging the rejection and staying at the
\* await, to make the write again.
StoreRejectsAndRetries(t) ==
    /\ t.pc \in {"saveEnrichment", "saveEvaluation", "updateStatus"}
    /\ tasks' = tasks
    /\ ev' = Failed(t, t.pc)
    /\ UNCHANGED <<store, runs, call, ui, reads>>

\* A store write of the closure rejects.
StoreRejects(t) ==
    /\ t.pc \in {"saveEnrichment", "saveEvaluation", "updateStatus"}
    /\ Catch(t, t.pc)

Next ==
    \/ \E rawText \in RawTexts, context \in Contexts, projectHint \in ProjectHints :
         CreateIdea(rawText, context, projectHint)
    \/ \E id \in RequestIds : Enrich(id)
    \/ \E id \in RequestIds : Evaluate(id)
    \/ \E id \in RequestIds : Analyze(id)
    \/ \E t \in InFlight, enrichment \in EnrichmentOutputs :
         EnrichIdeaReturns(t, enrichment)
    \/ \E t \in InFlight : EnrichIdeaThrows(t)
    \/ \E t \in InFlight : SaveEnrichmentDone(t)
    \/ \E t \in InFlight, evaluation \in EvaluationOutputs :
         EvaluateIdeaReturns(t, evaluation)
    \/ \E t \in InFlight : EvaluateIdeaThrows(t)
    \/ \E t \in InFlight : SaveEvaluationDone(t)
    \/ \E t \in InFlight : UpdateStatusDone(t)
    \/ \E t \in InFlight : StoreRejects(t)

Spec == Init /\ [][Next]_vars

\* A pending await of some closure settles: the call returns or fails.
TaskStep ==
    \/ \E t \in InFlight, enrichment \in EnrichmentOutputs :
         EnrichIdeaReturns(t, enrichment)
    \/ \E t \in InFlight : EnrichIdeaThrows(t)
    \/ \E t \in InFlight : SaveEnrichmentDone(t)
    \/ \E t \in InFlight, evaluation \in EvaluationOutputs :
         EvaluateIdeaReturns(t, evaluation)
    \/ \E t \in InFlight : EvaluateIdeaThrows(t)
    \/ \E t \in InFlight : SaveEvaluationDone(t)
    \/ \E t \in InFlight : UpdateStatusDone(t)
    \/ \E t \in InFlight : StoreRejects(t)

\* The server where every call a closure awaits returns or fails in the end.
FairSpec == Spec /\ WF_vars(TaskStep)

(* ---------------------------- GET handlers --------------------------- *)

\* What a GET handler has not read yet.
Unread == [unread |-> TRUE]

\* SELECT * FROM ideas WHERE id = ?: the row with its key.
IdeaRow(id) ==
    [id |-> id, source |-> ideas[id].source, raw_text |-> ideas[id].raw_text,
     context |-> ideas[id].context, project_hint |-> ideas[id].project_hint,
     status |-> ideas[id].status,
     created_at |-> ideas[id].created_at, updated_at |-> ideas[id].updated_at]

\* A row of the list query: six columns of ideas LEFT JOINed with two
\* columns of idea_evaluation, null where the idea has no evaluation row.
JoinedRow(id) ==
    [id |-> id, raw_text |-> ideas[id].raw_text, source |-> ideas[id].source,
     status |-> ideas[id].status, created_at |-> ideas[id].created_at,
     project_hint |-> ideas[id].project_hint,
     evaluation_score |->
       IF id \in DOMAIN evaluations THEN evaluations[id].evaluation_score ELSE "null",
     strategic_recommendation |->
       IF id \in DOMAIN evaluations
       THEN evaluations[id].strategic_recommendation ELSE "null"]

\* A GET request being served: the rows it read first, and per idea the
\* enrichment and the evaluation it has read since.
Read(op, id, rows) ==
    [op |-> op, id |-> id, rows |-> rows,
     enrichment |-> [k \in DOMAIN rows |-> Unread],
     evaluation |-> [k \in DOMAIN rows |-> Unread]]

\* { ...idea, enrichment, evaluation } of the list handler.
Spread(row, enrichment, evaluation) ==
    [id |-> row.id, raw_text |-> row.raw_text, source |-> row.source,
     status |-> row.status, created_at |-> row.created_at,
     project_hint |-> row.project_hint,
     evaluation_score |-> row.evaluation_score,
     strategic_recommendation |-> row.strategic_recommendation,
     enrichment |-> enrichment, evaluation |-> evaluation]

\* IdeaResponse with the two records in each other's place.
IdeaResponseSwapped(r, evaluation) ==
    [type |-> "response", op |-> "getIdea", id |-> r.id, code |-> 200,
     idea |-> r.rows[r.id], enrichment |-> evaluation,
     evaluation |-> r.enrichment[r.id]]

\* res.json({ idea, enrichment, evaluation })
IdeaResponse(r, evaluation) ==
    [type |-> "response", op |-> "getIdea", id |-> r.id, code |-> 200,
     idea |-> r.rows[r.id], enrichment |-> r.enrichment[r.id],
     evaluation |-> evaluation]

\* res.json({ ideas: enrichedIdeas, total: enrichedIdeas.length })
ListResponse(r, evaluation) ==
    [type |-> "response", op |-> "listIdeas", id |-> r.id, code |-> 200,
     ideas |-> [k \in DOMAIN r.rows |->
                  Spread(r.rows[k], r.enrichment[k], evaluation[k])],
     total |-> Cardinality(DOMAIN r.rows)]

\* The filters of the UI: a status, or all.
Filters == Statuses \cup {"all"}

\* filteredIdeas of the UI, over the list the server answered with.
filteredIdeas(list, filter) ==
    IF filter = "all"
    THEN list
    ELSE [k \in {i \in DOMAIN list : list[i].status = filter} |-> list[k]]

\* GET /api/ideas/:id up to its first read: 404, or the row is held.
GetIdea(id) ==
    /\ Cardinality(reads) < MaxReads
    /\ UNCHANGED <<store, tasks, runs, call, ui>>
    /\ IF ~FindIdea(id)
       THEN /\ ev' = Response("getIdea", id, 404, "")
            /\ reads' = reads
       ELSE /\ ev' = Quiet
            /\ reads' = reads \cup {Read("getIdea", id, id :> IdeaRow(id))}

\* ListIdeas with an inner join: ideas without an evaluation row drop out.
ListIdeasInnerJoin ==
    /\ Cardinality(reads) < MaxReads
    /\ UNCHANGED <<store, tasks, runs, call, ui>>
    /\ LET r == Read("listIdeas", UnknownId,
                     [k \in DOMAIN ideas \cap DOMAIN evaluations |-> JoinedRow(k)])
       IN  IF DOMAIN r.rows = {}
           THEN /\ ev' = ListResponse(r, r.evaluation)
                /\ reads' = reads
           ELSE /\ ev' = Quiet
                /\ reads' = reads \cup {r}

\* GET /api/ideas up to its query: with no row the answer is given at once.
ListIdeas ==
    /\ Cardinality(reads) < MaxReads
    /\ UNCHANGED <<store, tasks, runs, call, ui>>
    /\ LET r == Read("listIdeas", UnknownId, [k \in DOMAIN ideas |-> JoinedRow(k)])
       IN  IF DOMAIN ideas = {}
           THEN /\ ev' = ListResponse(r, r.evaluation)
                /\ reads' = reads
           ELSE /\ ev' = Quiet
                /\ reads' = reads \cup {r}

\* await getEnrichment(db, id) resolves: the list handler calls it for every
\* row in one turn, so that no write is issued between those reads.
ReadEnrichment(r) ==
    /\ \E k \in DOMAIN r.rows : r.enrichment[k] = Unread
    /\ reads' = (reads \ {r}) \cup
                {[r EXCEPT !.enrichment = [k \in DOMAIN r.rows |-> getEnrichment(k)]]}
    /\ ev' = Quiet
    /\ UNCHANGED <<store, tasks, runs, call, ui>>

\* await getEvaluation(db, id) resolves for idea k of the request: when it
\* is the last read of the request, the handler answers.
ReadEvaluation(r, k) ==
    /\ k \in DOMAIN r.rows
    /\ r.enrichment[k] # Unread
    /\ r.evaluation[k] = Unread
    /\ UNCHANGED <<store, tasks, runs, call, ui>>
    /\ LET evaluation == [r.evaluation EXCEPT ![k] = getEvaluation(k)]
       IN  IF \E other \in DOMAIN r.rows : evaluation[other] = Unread
           THEN /\ reads' = (reads \ {r}) \cup {[r EXCEPT !.evaluation = evaluation]}
                /\ ev' = Quiet
           ELSE /\ reads' = reads \ {r}
                /\ ev' = IF r.op = "getIdea"
                         THEN IdeaResponse(r, evaluation[k])
                         ELSE ListResponse(r, evaluation)

ReadNext ==
    \/ Next
    \/ \E id \in RequestIds : GetIdea(id)
    \/ ListIdeas
    \/ \E r \in reads : ReadEnrichment(r)
    \/ \E r \in reads, k \in IdeaIds : ReadEvaluation(r, k)

\* The server with its GET handlers.
ReadSpec == Init /\ [][ReadNext]_vars

(* ------------------------------ the UI -------------------------------- *)

\* fetch('/api/ideas') of loadIdeas: not under way, sent, or answered with
\* the rows of the handler's query (of which the UI shows the status).
NoLoad == [state |-> "none"]

LoadSent == [state |-> "sent"]

LoadAnswered(list) == [state |-> "answered", ideas |-> list]

\* App mounted: useState([]) and useState(true), and the effect's loadIdeas
\* has sent its fetch. cards holds isAnalyzing of each IdeaCard rendered;
\* posts, the analyze fetches not yet acknowledged, each with whether the
\* card that sent it is still the one rendered; sent counts the analyze
\* fetches sent and acked, per idea, the acknowledgments received.
Mounted ==
    [mounted |-> TRUE, ideas |-> <<>>, load |-> LoadSent, cards |-> <<>>,
     posts |-> <<>>, sent |-> 0, acked |-> [id \in IdeaIds |-> 0]]

\* isLoading of App, with one loadIdeas under way at a time.
isLoading == ui.load # NoLoad

\* Analyze fetches of the UI for idea id awaiting their acknowledgment.
PostsFor(id) == Cardinality({i \in DOMAIN ui.posts : ui.posts[i].id = id})

\* The server and a browser that has just opened the UI.
UIInit ==
    /\ ideas = <<>>
    /\ enrichments = <<>>
    /\ evaluations = <<>>
    /\ tasks = EmptyBag
    /\ runs = EmptyBag
    /\ ev = [type |-> "listen"]
    /\ call = NoCall
    /\ reads = {}
    /\ ui = Mounted

\* Click with a button that isAnalyzing does not disable.
ClickWhileAnalyzing(id) ==
    /\ ui.sent < MaxRuns
    /\ id \in DOMAIN ui.cards
    /\ ui.ideas[id] = "pending"
    /\ ui' = [ui EXCEPT !.cards[id] = TRUE,
                        !.posts = Append(@, [id |-> id, live |-> TRUE]),
                        !.sent = @ + 1]
    /\ UNCHANGED <<store, tasks, runs, ev, call, reads>>

\* A click on the Analyze button of the card of idea id, enabled unless
\* isAnalyzing || idea.status !== 'pending': handleAnalyze of the card sets
\* isAnalyzing and handleAnalyze of App sends the fetch.
Click(id) ==
    /\ ui.sent < MaxRuns
    /\ id \in DOMAIN ui.cards
    /\ ~ui.cards[id]
    /\ ui.ideas[id] = "pending"
    /\ ui' = [ui EXCEPT !.cards[id] = TRUE,
                        !.posts = Append(@, [id |-> id, live |-> TRUE]),
                        !.sent = @ + 1]
    /\ UNCHANGED <<store, tasks, runs, ev, call, reads>>

\* The server handles an analyze fetch of the UI for idea id.
ServeAnalyze(id) ==
    /\ ui.acked[id] + PostsFor(id) > CopiesIn(id, runs)
    /\ Analyze(id)

\* AckReturns with the card staying disabled after the acknowledgment.
AckReturnsKeepsGuard(i) ==
    /\ i \in DOMAIN ui.posts
    /\ ui.acked[ui.posts[i].id] < CopiesIn(ui.posts[i].id, runs)
    /\ ui' = [ui EXCEPT !.posts = SubSeq(@, 1, i - 1) \o SubSeq(@, i + 1, Len(@)),
                        !.acked[ui.posts[i].id] = @ + 1]
    /\ UNCHANGED <<store, tasks, runs, ev, call, reads>>

\* The acknowledgment of analyze fetch i reaches the UI: handleAnalyze of
\* App returns, and the finally of the card's handleAnalyze clears
\* isAnalyzing of the card that sent it, if it is still rendered.
AckReturns(i) ==
    /\ i \in DOMAIN ui.posts
    /\ ui.acked[ui.posts[i].id] < CopiesIn(ui.posts[i].id, runs)
    /\ ui' = [ui EXCEPT !.posts = SubSeq(@, 1, i - 1) \o SubSeq(@, i + 1, Len(@)),
                        !.acked[ui.posts[i].id] = @ + 1,
                        !.cards = IF ui.posts[i].live
                                  THEN [@ EXCEPT ![ui.posts[i].id] = FALSE]
                                  ELSE @]
    /\ UNCHANGED <<store, tasks, runs, ev, call, reads>>

\* loadIdeas starts (the 30 s interval, the timeout of handleAnalyze, the
\* Refresh button): setIsLoading(true) takes the cards off the page, and
\* with them their isAnalyzing.
StartLoad ==
    /\ ~isLoading
    /\ ui' = [ui EXCEPT !.load = LoadSent, !.cards = <<>>,
                        !.posts = [i \in DOMAIN @ |-> [@[i] EXCEPT !.live = FALSE]]]
    /\ UNCHANGED <<store, tasks, runs, ev, call, reads>>

\* The query of GET /api/ideas runs for the fetch of loadIdeas: its rows
\* carry the status the UI will show.
QueryIdeas ==
    /\ ui.load = LoadSent
    /\ ui' = [ui EXCEPT !.load =
                LoadAnswered([id \in DOMAIN ideas |-> JoinedRow(id).status])]
    /\ UNCHANGED <<store, tasks, runs, ev, call, reads>>

\* The answer reaches loadIdeas: setIdeas, setIsLoading(false), and a card
\* is rendered for every idea, its isAnalyzing false.
LoadReturns ==
    /\ ui.load \notin {NoLoad, LoadSent}
    /\ ui' = [ui EXCEPT !.ideas = ui.load.ideas, !.load = NoLoad,
                        !.cards = [id \in DOMAIN ui.load.ideas |-> FALSE]]
    /\ UNCHANGED <<store, tasks, runs, ev, call, reads>>

UINext ==
    \/ \E rawText \in RawTexts, context \in Contexts, projectHint \in ProjectHints :
         CreateIdea(rawText, context, projectHint)
    \/ TaskStep
    \/ \E id \in IdeaIds : Click(id)
    \/ \E id \in IdeaIds : ServeAnalyze(id)
    \/ \E i \in 1..MaxRuns : AckReturns(i)
    \/ StartLoad
    \/ QueryIdeas
    \/ LoadReturns

\* The server with one browser, its only client, on the UI.
UISpec == UIInit /\ [][UINext]_vars

(* ------------------------ after a first run --------------------------- *)

\* The server some time after one idea was created and one enrich run of it
\* completed: the idea is enriched, its enrichment record is stored, nothing
\* is in flight, and runs counts the run requests accepted from here on.
EnrichedStore ==
    /\ ideas = Upsert(<<>>, 1,
                 [source |-> "manual", raw_text |-> "Build a tool",
                  context |-> OrNull("side project"),
                  project_hint |-> OrNull(Missing),
                  status |-> "enriched", created_at |-> 0, updated_at |-> 1])
    /\ enrichments = Upsert(<<>>, 1, EnrichmentRow(EnrichmentOutput("feature", 3), 1))
    /\ evaluations = <<>>
    /\ tasks = EmptyBag
    /\ ev = [type |-> "log", kind |-> "enrich", id |-> 1, ok |-> TRUE,
             route |-> "", status |-> "enriched",
             invoked |-> <<"enrichIdea">>, wrote |-> <<"idea_enrichment", "ideas">>]
    /\ call = NoCall
    /\ reads = {}
    /\ ui = NoUI

EnrichedInit == EnrichedStore /\ runs = EmptyBag

RerunSpec == EnrichedInit /\ [][Next]_vars

(* --------------------------- store alone ------------------------------ *)

\* Enrichment records handed to saveEnrichment: with and without the
\* optional searchVolume, with empty and non-empty lists.
EnrichmentRecords ==
    { [category |-> category, complexityScore |-> complexityScore,
       marketValidation |-> marketValidation,
       technicalFeasibility |->
          [stackFit |-> "good", dependencies |-> <<"sqlite">>, riskFactors |-> <<>>],
       resourceEstimate |-> [estimatedHours |-> 8, skillsRequired |-> <<"ts">>]] :
      category \in {"feature"}, complexityScore \in {1, 10},
      marketValidation \in
        { [competitors |-> <<>>, marketGap |-> "gap"],
          [searchVolume |-> "high", competitors |-> <<"rival", "other">>,
           marketGap |-> ""] } }

\* Evaluation records handed to saveEvaluation: rationale differs from
\* jtbdAnalysis or repeats it; caseStudyMatches is empty or not.
EvaluationRecords ==
    { [jtbdAnalysis |-> "job", disruptionScore |-> 5, capabilitiesFit |-> "strong",
       recommendation |-> "partner", caseStudyMatches |-> caseStudyMatches,
       evaluationScore |-> 70, rationale |-> rationale] :
      caseStudyMatches \in {<<>>, <<"steel", "disk">>},
      rationale \in {"why", "job"} }

\* The store with MaxIdeas ideas created and no record yet.
StoreInit ==
    /\ ideas = [id \in IdeaIds |->
                  [source |-> "manual", raw_text |-> "Build a tool",
                   context |-> OrNull("side project"),
                   project_hint |-> OrNull(Missing),
                   status |-> "pending", created_at |-> 0, updated_at |-> 0]]
    /\ enrichments = <<>>
    /\ evaluations = <<>>
    /\ tasks = EmptyBag
    /\ runs = EmptyBag
    /\ ev = Response("create", MaxIdeas, 201, "pending")
    /\ call = NoCall
    /\ reads = {}
    /\ ui = NoUI

\* await saveEnrichment(db, id, enrichment)
SaveEnrichmentCall(id, enrichment) ==
    /\ EnrichedAt(id) <= MaxSaves
    /\ enrichments' = Upsert(enrichments, id, EnrichmentRow(enrichment, EnrichedAt(id)))
    /\ call' = [fn |-> "saveEnrichment", id |-> id, enrichment |-> enrichment]
    /\ UNCHANGED <<ideas, evaluations, tasks, runs, ev, reads, ui>>

\* await getEnrichment(db, id)
GetEnrichmentCall(id) ==
    /\ call' = [fn |-> "getEnrichment", id |-> id, returned |-> getEnrichment(id)]
    /\ UNCHANGED <<store, tasks, runs, ev, reads, ui>>

\* await saveEvaluation(db, id, evaluation)
SaveEvaluationCall(id, evaluation) ==
    /\ EvaluatedAt(id) <= MaxSaves
    /\ evaluations' = Upsert(evaluations, id, EvaluationRow(evaluation, EvaluatedAt(id)))
    /\ call' = [fn |-> "saveEvaluation", id |-> id, evaluation |-> evaluation]
    /\ UNCHANGED <<ideas, enrichments, tasks, runs, ev, reads, ui>>

\* await getEvaluation(db, id)
GetEvaluationCall(id) ==
    /\ call' = [fn |-> "getEvaluation", id |-> id, returned |-> getEvaluation(id)]
    /\ UNCHANGED <<store, tasks, runs, ev, reads, ui>>

StoreNext ==
    \/ \E id \in IdeaIds, enrichment \in EnrichmentRecords :
         SaveEnrichmentCall(id, enrichment)
    \/ \E id \in IdeaIds : GetEnrichmentCall(id)
    \/ \E id \in IdeaIds, evaluation \in EvaluationRecords :
         SaveEvaluationCall(id, evaluation)
    \/ \E id \in IdeaIds : GetEvaluationCall(id)

StoreSpec == StoreInit /\ [][StoreNext]_vars

(* --------------------------- router alone ----------------------------- *)

RouterScores == (0 - ScoreMargin)..(MaxScore + ScoreMargin)

RouterRecommendations == Recommendations \cup {"", "Build-Now"}

RouterInit ==
    /\ ideas = <<>>
    /\ enrichments = <<>>
    /\ evaluations = <<>>
    /\ tasks = EmptyBag
    /\ runs = EmptyBag
    /\ ev = [type |-> "listen"]
    /\ reads = {}
    /\ ui = NoUI
    /\ \E score \in RouterScores, recommendation \in RouterRecommendations :
         call = [fn |-> "routeIdea", evaluationScore |-> score,
                 recommendation |-> recommendation, returned |-> FALSE]

RouteIdeaCall ==
    /\ call.fn = "routeIdea"
    /\ ~call.returned
    /\ call' = [fn |-> "routeIdea", evaluationScore |-> call.evaluationScore,
                recommendation |-> call.recommendation, returned |-> TRUE,
                route |-> routeIdea(call.evaluationScore, call.recommendation),
                status |-> newStatus(routeIdea(call.evaluationScore,
                                               call.recommendation))]
    /\ UNCHANGED <<store, tasks, runs, ev, reads, ui>>

RouterNext == RouteIdeaCall

RouterSpec == RouterInit /\ [][RouterNext]_vars

(* ------------------------------ claims -------------------------------- *)

\* C1 as stated: in every reachable state at most one detached task is in
\* flight for each idea.
C1_AtMostOneInFlight == \A id \in IdeaIds : InFlightFor(id) <= 1

\* C1 amended: each accepted run request starts exactly one task and nothing
\* else starts one, so the tasks in flight for an idea never outnumber the run
\* requests accepted for it.
C1_OneTaskPerAcceptedRun == \A id \in IdeaIds : InFlightFor(id) <= CopiesIn(id, runs)

\* Two overlapping runs on one idea: both were accepted, both are in flight.
C1_TwoInFlight == \E id \in IdeaIds : InFlightFor(id) = 2 /\ CopiesIn(id, runs) = 2

\* C2: a returned routeIdea call with evaluationScore >= 80 and
\* recommendation "build-now" returned GENERATE_BLUEPRINT.
C2_BuildNow ==
    (call.fn = "routeIdea" /\ call.returned
        /\ call.evaluationScore >= 80 /\ call.recommendation = "build-now")
    => call.route = "GENERATE_BLUEPRINT"

\* routeIdea(80, "build-now") has returned GENERATE_BLUEPRINT.
C2_AtEighty ==
    /\ call.fn = "routeIdea" /\ call.returned
    /\ call.evaluationScore = 80 /\ call.recommendation = "build-now"
    /\ call.route = "GENERATE_BLUEPRINT"

\* C3: a returned routeIdea call with evaluationScore >= 80 and any other
\* recommendation returned DEFER_WITH_BLUEPRINT.
C3_HighScoreOtherLabel ==
    (call.fn = "routeIdea" /\ call.returned
        /\ call.evaluationScore >= 80 /\ call.recommendation # "build-now")
    => call.route = "DEFER_WITH_BLUEPRINT"

\* routeIdea(85, "skip") has returned DEFER_WITH_BLUEPRINT.
C3_EightyFiveSkip ==
    /\ call.fn = "routeIdea" /\ call.returned
    /\ call.evaluationScore = 85 /\ call.recommendation = "skip"
    /\ call.route = "DEFER_WITH_BLUEPRINT"

\* C4: whatever the recommendation, a returned routeIdea call returned
\* DEFER_WITH_BLUEPRINT for a score in [60,80), NEEDS_VALIDATION for a score
\* in [40,60) and ARCHIVE_WITH_LEARNING for a score below 40, and what it
\* returned is one of the four outcomes.
C4_ScoreBands ==
    (call.fn = "routeIdea" /\ call.returned)
    => /\ call.route \in Routes
       /\ (60 <= call.evaluationScore /\ call.evaluationScore < 80)
            => call.route = "DEFER_WITH_BLUEPRINT"
       /\ (40 <= call.evaluationScore /\ call.evaluationScore < 60)
            => call.route = "NEEDS_VALIDATION"
       /\ call.evaluationScore < 40 => call.route = "ARCHIVE_WITH_LEARNING"

\* routeIdea(40, "build-now") has returned NEEDS_VALIDATION: the lower
\* boundary belongs to the upper rule, whatever the label.
C4_AtForty ==
    /\ call.fn = "routeIdea" /\ call.returned
    /\ call.evaluationScore = 40 /\ call.recommendation = "build-now"
    /\ call.route = "NEEDS_VALIDATION"

\* The status mapping as the claims state it.
StatusForRoute(route) ==
    CASE route = "GENERATE_BLUEPRINT" -> "evaluated-ready"
      [] route = "DEFER_WITH_BLUEPRINT" -> "deferred"
      [] route = "NEEDS_VALIDATION" -> "research"
      [] route = "ARCHIVE_WITH_LEARNING" -> "archived"

\* The step ends closure t (its last await resolved, or its catch block ran).
Ends(t) == tasks' = tasks (-) SetToBag({t})

\* The step printed the completion line of a closure.
LogsCompletion(e) == e.type = "log" /\ e.ok

\* The step printed the failure line of a closure that failed at `error`.
LogsFailure(e, error) == e.type = "log" /\ ~e.ok /\ e.error = error

C5_Step ==
    /\ \A t \in InFlight :
         (t.kind \in {"evaluate", "analyze"} /\ Ends(t) /\ LogsCompletion(ev'))
         => /\ t.pc = "updateStatus"
            /\ ideas'[t.id].status =
                 StatusForRoute(routeIdea(t.evaluation.evaluationScore,
                                          t.evaluation.recommendation))
            /\ ev'.status = ideas'[t.id].status
    /\ \A id \in DOMAIN ideas :
         ideas'[id] # ideas[id]
         => \E t \in InFlight :
              /\ t.id = id /\ Ends(t) /\ LogsCompletion(ev')
              /\ \A other \in DOMAIN ideas \ {id} : ideas'[other] = ideas[other]

\* C5: the step in which an evaluate or analyze task completes sets the
\* idea's status to the status mapping of routeIdea applied to the evaluation
\* output the task holds, and no other step of any task changes an idea row.
C5_WritesMappedRoute == [][C5_Step]_vars

\* An evaluate task has completed with route DEFER_WITH_BLUEPRINT and the
\* idea is deferred.
C5_Deferred ==
    /\ LogsCompletion(ev) /\ ev.kind = "evaluate"
    /\ ev.route = "DEFER_WITH_BLUEPRINT"
    /\ ideas[ev.id].status = "deferred"

\* Idea id has had one run request and nothing of it is in flight.
SoleRunOver(id) == CopiesIn(id, runs) = 1 /\ InFlightFor(id) = 0

\* C6: once the only run of an idea, a full pipeline, has completed, the
\* idea's status is the mapped route of the stored evaluation: evaluated-ready
\* for 90 with "build-now", archived for 30.
C6_EndToEnd ==
    \A id \in DOMAIN ideas :
      (SoleRunOver(id)
         /\ \/ LogsCompletion(ev) /\ ev.kind = "analyze" /\ ev.id = id
            \/ ideas[id].status \notin {"pending", "enriched"})
      => /\ id \in DOMAIN evaluations
         /\ ideas[id].status =
              StatusForRoute(routeIdea(getEvaluation(id).evaluationScore,
                                       getEvaluation(id).recommendation))
         /\ (getEvaluation(id).evaluationScore = 90
               /\ getEvaluation(id).recommendation = "build-now")
            => ideas[id].status = "evaluated-ready"
         /\ getEvaluation(id).evaluationScore = 30
            => ideas[id].status = "archived"

\* Two ideas, one full pipeline each, both over: one evaluated 90 with
\* "build-now" and evaluated-ready, the other evaluated 30 and archived.
C6_ReadyAndArchived ==
    /\ LogsCompletion(ev) /\ ev.kind = "analyze"
    /\ \E a, b \in DOMAIN ideas :
         /\ SoleRunOver(a) /\ SoleRunOver(b)
         /\ a \in DOMAIN evaluations /\ b \in DOMAIN evaluations
         /\ getEvaluation(a).evaluationScore = 90
         /\ getEvaluation(a).recommendation = "build-now"
         /\ ideas[a].status = "evaluated-ready"
         /\ getEvaluation(b).evaluationScore = 30
         /\ ideas[b].status = "archived"

\* The idea has had one run request, and it is fresh: pending, no records.
FreshAfterSoleRun(id) ==
    /\ ideas'[id].status = "pending"
    /\ id \notin DOMAIN enrichments'
    /\ id \notin DOMAIN evaluations'

C7_Step ==
    LogsFailure(ev', "enrichIdea")
    => /\ ev'.kind \in {"enrich", "analyze"}
       /\ ev'.wrote = <<>>
       /\ store' = store
       /\ CopiesIn(ev'.id, runs') = 1 => FreshAfterSoleRun(ev'.id)

\* C7: the step in which a task's enrichment executor fails ends the task
\* with the store as it was, the task having written nothing before; if the
\* task was the idea's only run, the idea is still pending with no record.
C7_EnrichFailureWritesNothing == [][C7_Step]_vars

\* The enrichment executor has failed in the only run of an idea, a full
\* pipeline, and the idea is pending with no enrichment record.
C7_FailedAndPending ==
    /\ LogsFailure(ev, "enrichIdea") /\ ev.kind = "analyze"
    /\ CopiesIn(ev.id, runs) = 1
    /\ ideas[ev.id].status = "pending"
    /\ ev.id \notin DOMAIN enrichments

\* Closure t has invoked the evaluation executor.
InvokedEvaluate(t) == \E k \in DOMAIN t.invoked : t.invoked[k] = "evaluateIdea"

C8_Step ==
    /\ \A t \in BagToSet(tasks') :
         (t.kind = "analyze" /\ InvokedEvaluate(t))
         => /\ t.wrote # <<>> /\ t.wrote[1] = "idea_enrichment"
            /\ t.id \in DOMAIN enrichments'
    /\ \A t \in InFlight :
         (t.kind = "analyze" /\ Ends(t)
            /\ (LogsFailure(ev', "enrichIdea") \/ LogsFailure(ev', "saveEnrichment")))
         => /\ ev'.invoked = <<"enrichIdea">>
            /\ ~InvokedEvaluate(t)
    /\ \A u \in BagToSet(tasks') :
         (u.kind = "analyze" /\ u.pc = "evaluateIdea"
            /\ CopiesIn(u, tasks') > CopiesIn(u, tasks))
         => \E t \in InFlight :
              /\ t.kind = "analyze" /\ t.id = u.id /\ t.pc = "saveEnrichment"
              /\ tasks' = (tasks (-) SetToBag({t})) (+) SetToBag({u})
              /\ u.enrichment = t.enrichment
              /\ getEnrichment(t.id)' = t.enrichment
              /\ ev' = Quiet

\* C8: a full-pipeline task that has invoked the evaluation executor has
\* persisted its enrichment first; a full-pipeline task whose enrichment
\* executor or enrichment upsert fails ends there, having invoked the
\* enrichment executor only.
C8_NoEvaluationAfterEnrichFailure == [][C8_Step]_vars

\* The enrichment upsert of a full-pipeline task has failed: the task is
\* over and evaluateIdea was not called.
C8_UpsertFailed ==
    /\ LogsFailure(ev, "saveEnrichment") /\ ev.kind = "analyze"
    /\ ev.invoked = <<"enrichIdea">>
    /\ InFlightFor(ev.id) = 0

C9_Step ==
    \A id \in DOMAIN ideas :
      (id \notin DOMAIN enrichments
         /\ ev'.type = "response" /\ ev'.op = "evaluate" /\ ev'.id = id)
      => /\ ev'.code = 400
         /\ ev'.status = ""
         /\ tasks' = tasks
         /\ runs' = runs
         /\ store' = store

\* C9: the answer to an evaluate request for a stored idea without an
\* enrichment row is 400, with no acknowledgment status, and the step starts
\* no task, invokes no executor and leaves the store as it was.
C9_EvaluateNeedsEnrichment == [][C9_Step]_vars

\* An evaluate request for a stored, not yet enriched idea was answered 400
\* while a run on the idea is in flight: the idea is still pending.
C9_Rejected ==
    /\ ev.type = "response" /\ ev.op = "evaluate" /\ ev.code = 400
    /\ ev.id \in DOMAIN ideas /\ ev.id \notin DOMAIN enrichments
    /\ ideas[ev.id].status = "pending"
    /\ InFlightFor(ev.id) = 1

C10_Step ==
    LogsFailure(ev', "evaluateIdea")
    => /\ store' = store
       /\ ev'.kind \in {"evaluate", "analyze"}
       /\ ev'.kind = "evaluate" => ev'.wrote = <<>>
       /\ ev'.kind = "analyze"
            => /\ ev'.wrote = <<"idea_enrichment">>
               /\ ev'.id \in DOMAIN enrichments'

\* C10: the step in which a task's evaluation executor fails ends the task
\* with the store as it was; an evaluate task has written nothing by then, a
\* full-pipeline task only its enrichment row, which stays stored.
C10_EvaluateFailureKeepsStatus == [][C10_Step]_vars

\* The evaluation executor has failed in an evaluate task on an idea that
\* was evaluated before: the earlier evaluation row and routed status stand.
C10_FailedReevaluation ==
    /\ LogsFailure(ev, "evaluateIdea") /\ ev.kind = "evaluate"
    /\ ev.id \in DOMAIN evaluations
    /\ ideas[ev.id].status \in {"evaluated-ready", "deferred", "research", "archived"}

\* The step answered a request of kind op.
Answers(e, op) == e.type = "response" /\ e.op = op

C11_Step ==
    /\ \A rawText \in {"", Missing}, context \in Contexts, projectHint \in ProjectHints :
         CreateIdea(rawText, context, projectHint)
         => /\ Answers(ev', "create") /\ ev'.code = 400
            /\ store' = store
            /\ tasks' = tasks
    /\ (Answers(ev', "create") /\ ev'.code = 400)
       => /\ store' = store
          /\ tasks' = tasks
    /\ \A id \in DOMAIN ideas' : ideas'[id].raw_text \notin {"", Missing}

\* C11: a create request whose rawText is empty or missing is answered 400 in
\* the step of the request, and that step leaves the three tables as they
\* were and starts no task; no stored idea ever has an empty or missing text.
C11_EmptyTextRejected == [][C11_Step]_vars

\* A create request was answered 400 while one idea is stored.
C11_RejectedBesideStored ==
    /\ Answers(ev, "create") /\ ev.code = 400
    /\ Cardinality(DOMAIN ideas) = 1

C12_Step ==
    /\ (Answers(ev', "create") /\ ev'.code = 201)
       => /\ ev'.id \notin DOMAIN ideas
          /\ DOMAIN ideas' = DOMAIN ideas \cup {ev'.id}
          /\ \A id \in DOMAIN ideas : ideas'[id] = ideas[id]
          /\ ideas'[ev'.id].status = "pending"
          /\ ev'.status = "pending"
          /\ ev'.id \notin DOMAIN enrichments'
          /\ ev'.id \notin DOMAIN evaluations'
          /\ enrichments' = enrichments /\ evaluations' = evaluations
    /\ DOMAIN ideas' # DOMAIN ideas
       => Answers(ev', "create") /\ ev'.code = 201

\* C12: the step that answers a create request 201 adds one row to ideas,
\* under the id it answers with, which no stored idea had; the row is pending,
\* stored in the state the answer is given in, with no enrichment or
\* evaluation row; the other rows stand, and no other step adds or removes an
\* idea.
C12_CreateStoresOneFreshIdea == [][C12_Step]_vars

\* The second of two creates with the same text was answered 201: two ideas
\* with that text are stored under different ids.
C12_SameTextTwice ==
    /\ Answers(ev, "create") /\ ev.code = 201
    /\ \E a, b \in DOMAIN ideas :
         /\ a # b /\ b = ev.id
         /\ ideas[a].raw_text = ideas[b].raw_text
         /\ ideas[b].status = "pending"

RunOps == {"enrich", "evaluate", "analyze"}

C13_Step ==
    /\ \A op \in RunOps :
         (Answers(ev', op) /\ ev'.id \notin DOMAIN ideas)
         => /\ ev'.code = 404
            /\ ev'.status = ""
            /\ tasks' = tasks
            /\ runs' = runs
            /\ store' = store
    /\ \A id \in RequestIds \ DOMAIN ideas :
         /\ Enrich(id) => Answers(ev', "enrich") /\ ev'.code = 404
         /\ Evaluate(id)
            => Answers(ev', "evaluate") /\ ev'.code = 404 /\ getEnrichment(id) = Unset
         /\ Analyze(id) => Answers(ev', "analyze") /\ ev'.code = 404

\* C13: an enrich, evaluate or analyze request for an id that no stored idea
\* has is answered 404 in the step of the request; the step starts no task,
\* invokes no executor and leaves the store as it was. The evaluate request
\* is answered 404, not 400, although the id has no enrichment row either.
C13_UnknownIdRejected == [][C13_Step]_vars

\* An evaluate request for an unknown id was answered 404 while an idea is
\* stored and a run is in flight.
C13_EvaluateUnknown ==
    /\ Answers(ev, "evaluate") /\ ev.code = 404
    /\ ev.id \notin DOMAIN ideas /\ ev.id \notin DOMAIN enrichments
    /\ DOMAIN ideas # {}
    /\ InFlight # {}

C14_Step ==
    /\ \A u \in BagToSet(tasks') :
         (u.kind = "enrich" /\ u.pc = "updateStatus"
            /\ CopiesIn(u, tasks') > CopiesIn(u, tasks))
         => \E t \in InFlight :
              /\ t.kind = "enrich" /\ t.id = u.id /\ t.pc = "saveEnrichment"
              /\ t.enrichment \in EnrichmentOutputs
              /\ tasks' = (tasks (-) SetToBag({t})) (+) SetToBag({u})
              /\ u.wrote = <<"idea_enrichment">>
              /\ getEnrichment(t.id)' = t.enrichment
              /\ ideas' = ideas
    /\ \A t \in InFlight :
         (t.kind = "enrich" /\ Ends(t) /\ LogsCompletion(ev'))
         => /\ t.pc = "updateStatus"
            /\ t.wrote = <<"idea_enrichment">>
            /\ ev'.wrote = <<"idea_enrichment", "ideas">>
            /\ t.id \in DOMAIN enrichments'
            /\ enrichments' = enrichments
            /\ ideas'[t.id].status = "enriched"
            /\ ideas'[t.id].updated_at > ideas[t.id].updated_at
            /\ \A other \in DOMAIN ideas \ {t.id} : ideas'[other] = ideas[other]

\* C14: an enrich task reaches its status update only from the resolved
\* upsert of the output its enrichment executor returned, which leaves that
\* output as the idea's enrichment row; the update that completes the task
\* then sets the idea's status to enriched, from any status, with a later
\* updated_at, and touches no other row.
C14_UpsertThenEnriched == [][C14_Step]_vars

\* An enrich task has completed on an idea whose status was written once
\* before, by an evaluation: the idea had a routed status and is enriched.
C14_EnrichedFromRouted ==
    /\ LogsCompletion(ev) /\ ev.kind = "enrich"
    /\ ev.id \in DOMAIN evaluations
    /\ ideas[ev.id].status = "enriched"
    /\ ideas[ev.id].updated_at = 2

\* The step resolves the await closure t stands at, a write of `table`.
Wrote(t, table) ==
    \E u \in BagToSet(tasks') :
      /\ tasks' = (tasks (-) SetToBag({t})) (+) SetToBag({u})
      /\ u.id = t.id /\ u.kind = t.kind
      /\ u.wrote = Append(t.wrote, table)

C15_Step ==
    /\ DOMAIN enrichments' \subseteq DOMAIN ideas'
    /\ DOMAIN evaluations' \subseteq DOMAIN ideas'
    /\ \A t \in InFlight :
         (t.pc = "saveEnrichment" /\ Wrote(t, "idea_enrichment"))
         => /\ DOMAIN enrichments' = DOMAIN enrichments \cup {t.id}
            /\ getEnrichment(t.id)' = t.enrichment
            /\ getEnrichment(t.id) = t.enrichment
               => getEnrichment(t.id)' = getEnrichment(t.id)
            /\ \A other \in DOMAIN enrichments \ {t.id} :
                 enrichments'[other] = enrichments[other]
    /\ \A t \in InFlight :
         (t.pc = "saveEvaluation" /\ Wrote(t, "idea_evaluation"))
         => /\ DOMAIN evaluations' = DOMAIN evaluations \cup {t.id}
            /\ evaluations'[t.id] =
                 EvaluationRow(t.evaluation, evaluations'[t.id].evaluated_at)
            /\ \A other \in DOMAIN evaluations \ {t.id} :
                 evaluations'[other] = evaluations[other]
    /\ enrichments' # enrichments
       => \E t \in InFlight : t.pc = "saveEnrichment" /\ Wrote(t, "idea_enrichment")
    /\ evaluations' # evaluations
       => \E t \in InFlight : t.pc = "saveEvaluation" /\ Wrote(t, "idea_evaluation")
    /\ \A t \in InFlight :
         (t.kind = "enrich" /\ Ends(t) /\ LogsCompletion(ev')
            /\ ideas[t.id].status = "enriched")
         => ideas'[t.id].status = ideas[t.id].status

\* C15: idea_enrichment and idea_evaluation hold one row per idea id, of
\* stored ideas only. A resolved enrichment upsert leaves as the idea's
\* record exactly the output the task holds, whatever row was there: on a
\* record equal to that output it leaves the record as it was, and an enrich
\* task that completes on an enriched idea leaves it enriched. A resolved
\* evaluation upsert replaces the idea's row by the columns of the task's
\* output. No upsert touches another idea's row, nothing else writes the two
\* tables.
C15_UpsertByKey == [][C15_Step]_vars

\* Two enrich tasks on one idea have both upserted the same output: the idea
\* has the one enrichment record, written twice, equal to that output.
C15_SameOutputTwice ==
    \E t \in InFlight :
      /\ tasks[t] = 2
      /\ t.kind = "enrich" /\ t.pc = "updateStatus"
      /\ enrichments[t.id].enriched_at = 2
      /\ getEnrichment(t.id) = t.enrichment

C16_Step ==
    /\ \A t \in InFlight :
         (t.kind = "analyze" /\ t.pc \in {"enrichIdea", "saveEnrichment"})
         => t.invoked = <<"enrichIdea">> /\ t.wrote = <<>>
    /\ \A u \in BagToSet(tasks') :
         (u.kind = "analyze" /\ u.pc = "evaluateIdea"
            /\ CopiesIn(u, tasks') > CopiesIn(u, tasks))
         => /\ u.invoked = <<"enrichIdea", "evaluateIdea">>
            /\ u.enrichment \in EnrichmentOutputs
            /\ \E t \in InFlight :
                 /\ t.kind = "analyze" /\ t.pc = "saveEnrichment"
                 /\ Wrote(t, "idea_enrichment")
                 /\ u.enrichment = t.enrichment
                 /\ getEnrichment(u.id)' = u.enrichment
    /\ \A t \in InFlight :
         (t.kind = "analyze" /\ t.pc = "evaluateIdea")
         => /\ t.wrote = <<"idea_enrichment">>
            /\ t.id \in DOMAIN enrichments
            /\ t.enrichment \in EnrichmentOutputs

\* C16: a full-pipeline task has invoked no evaluation executor and written
\* nothing while it stands at its enrichment executor or enrichment upsert;
\* it arrives at the evaluation executor only in the step that resolves its
\* own enrichment upsert, and the enrichment it passes is the output it
\* upserted in that step, which it holds while the call is pending.
C16_EvaluateAfterOwnUpsert == [][C16_Step]_vars

\* A full-pipeline task stands at its evaluation executor with its own
\* enrichment output while the idea's stored record, upserted since by an
\* overlapping run, is another.
C16_OwnOutputNotStored ==
    \E t \in InFlight :
      /\ t.kind = "analyze" /\ t.pc = "evaluateIdea"
      /\ t.enrichment \in EnrichmentOutputs
      /\ getEnrichment(t.id) \in EnrichmentOutputs \ {t.enrichment}

\* The await a closure of kind op starts at: its stage executor.
FirstAwait(op) == IF op = "evaluate" THEN "evaluateIdea" ELSE "enrichIdea"

\* Closure u has just been started: it stands at its executor, which has not
\* returned, and has written nothing.
Pending(u) ==
    /\ u.pc = FirstAwait(u.kind)
    /\ u.invoked = <<u.pc>>
    /\ u.wrote = <<>>
    /\ u.evaluation = Unset

C17_Step ==
    /\ \A op \in RunOps :
         (Answers(ev', op) /\ ev'.code = 200)
         => /\ store' = store
            /\ runs' = runs (+) SetToBag({ev'.id})
            /\ \E u \in BagToSet(tasks') :
                 /\ u.kind = op /\ u.id = ev'.id /\ Pending(u)
                 /\ tasks' = tasks (+) SetToBag({u})
    /\ \A u \in BagToSet(tasks') :
         (u.pc = FirstAwait(u.kind) /\ CopiesIn(u, tasks') > CopiesIn(u, tasks))
         => /\ Answers(ev', u.kind) /\ ev'.code = 200 /\ ev'.id = u.id
            /\ Pending(u)
    /\ \A t \in InFlight :
         CopiesIn(t, tasks') < CopiesIn(t, tasks) => ~Answers(ev', t.kind)
    /\ store' # store => ev'.type # "response" \/ Answers(ev', "create")

\* C17: the step that acknowledges an enrich, evaluate or analyze request
\* (200) leaves the store as it was and starts the one task of the request,
\* which stands at its stage executor with nothing returned and nothing
\* written; a task is started by no other step, so each return or failure
\* of an executor and each store write of a task comes in a later step than
\* the acknowledgment, and no step of a task answers a request.
C17_AcknowledgedFirst == [][C17_Step]_vars

\* An analyze request has been acknowledged: its task stands at the
\* enrichment executor, which has returned nothing, and the idea is as
\* created.
C17_AcknowledgedWhilePending ==
    /\ Answers(ev, "analyze") /\ ev.code = 200 /\ ev.status = "analyzing"
    /\ \E t \in InFlight : t.kind = "analyze" /\ t.id = ev.id /\ Pending(t)
    /\ ideas[ev.id].status = "pending"
    /\ ev.id \notin DOMAIN enrichments

\* The place of a status in the order pending, enriched, routed.
StatusRank(status) ==
    CASE status = "pending" -> 0
      [] status = "enriched" -> 1
      [] status \in {"evaluated-ready", "deferred", "research", "archived"} -> 2

\* C18: no step takes a stored idea's status back in the order pending,
\* enriched, routed (evaluated-ready, deferred, research, archived): not from
\* a routed status to enriched, and not from any status to pending.
C18_StatusMovesForward ==
    [][\A id \in DOMAIN ideas :
         StatusRank(ideas'[id].status) >= StatusRank(ideas[id].status)]_vars

\* C19: in every reachable state each idea id with a row in idea_evaluation
\* has a row in idea_enrichment, and each task that stands at or past its
\* evaluation upsert is on an idea with an enrichment row.
C19_EvaluationNeedsEnrichment ==
    /\ DOMAIN evaluations \subseteq DOMAIN enrichments
    /\ \A t \in InFlight :
         t.pc \in {"evaluateIdea", "saveEvaluation"} => t.id \in DOMAIN enrichments

\* An evaluate task has completed on an idea that an earlier enrich run had
\* enriched: the idea has its evaluation row and its enrichment row, while
\* another stored idea has neither.
C19_BothRecords ==
    /\ LogsCompletion(ev) /\ ev.kind = "evaluate"
    /\ ev.id \in DOMAIN evaluations /\ ev.id \in DOMAIN enrichments
    /\ CopiesIn(ev.id, runs) = 2
    /\ \E other \in DOMAIN ideas \ {ev.id} : other \notin DOMAIN enrichments

C20_Step ==
    /\ \A id \in DOMAIN enrichments' :
         (id \notin DOMAIN enrichments \/ enrichments'[id] # enrichments[id])
         => \E t \in InFlight :
              /\ t.id = id
              /\ t.kind \in {"enrich", "analyze"}
              /\ t.pc = "saveEnrichment"
              /\ t.invoked = <<"enrichIdea">>
              /\ t.enrichment \in EnrichmentOutputs
              /\ Wrote(t, "idea_enrichment")
              /\ getEnrichment(id)' = t.enrichment
    /\ \A u \in BagToSet(tasks') :
         (u.pc = "saveEnrichment" /\ CopiesIn(u, tasks') > CopiesIn(u, tasks))
         => /\ u.enrichment \in EnrichmentOutputs
            /\ \E t \in InFlight :
                 /\ t.pc = "enrichIdea" /\ t.id = u.id /\ t.kind = u.kind
                 /\ tasks' = (tasks (-) SetToBag({t})) (+) SetToBag({u})
                 /\ ev' = Quiet
    /\ \A id \in DOMAIN enrichments' :
         /\ getEnrichment(id)' \in EnrichmentOutputs
         /\ CopiesIn(id, runs') >= 1
    /\ DOMAIN enrichments \subseteq DOMAIN enrichments'

\* C20: a row of idea_enrichment is created or changed only by the step that
\* resolves the enrichment upsert of an enrich or full-pipeline task on that
\* idea, a task that arrived at the upsert in the step in which its
\* enrichment executor returned the output it stores; every stored record is
\* such an output, of an idea that a run was accepted for, and no step
\* removes one.
C20_OnlyAfterExecutorSuccess == [][C20_Step]_vars

\* The enrichment executor has failed for one idea, which has no enrichment
\* record, while another idea has the record a successful run stored.
C20_RecordOnlyWhereSucceeded ==
    /\ LogsFailure(ev, "enrichIdea")
    /\ ev.id \notin DOMAIN enrichments
    /\ \E other \in DOMAIN enrichments :
         other # ev.id /\ getEnrichment(other) \in EnrichmentOutputs

\* C21: in every reachable state the enrichment record of an idea is, whole,
\* one of the outputs the enrichment executor returns, and its evaluation row
\* is, whole, the columns of one output of the evaluation executor: never the
\* category of one output with the complexity score of another, nor the score
\* of one evaluation with the recommendation of another.
C21_WholeRecords ==
    /\ \A id \in DOMAIN enrichments : getEnrichment(id) \in EnrichmentOutputs
    /\ \A id \in DOMAIN evaluations :
         \E evaluation \in EvaluationOutputs :
           evaluations[id] = EvaluationRow(evaluation, evaluations[id].evaluated_at)

\* Two overlapping enrich tasks on one idea returned different outputs and
\* both upserted: the record is the later one, whole, and the task that wrote
\* first still holds the other.
C21_LastWriteWins ==
    \E t \in InFlight :
      /\ t.kind = "enrich" /\ t.pc = "updateStatus"
      /\ enrichments[t.id].enriched_at = 2
      /\ getEnrichment(t.id) \in EnrichmentOutputs \ {t.enrichment}

\* The step is a step of closure t: it resolves or rejects the await t
\* stands at.
StepOf(t) == CopiesIn(t, tasks') < CopiesIn(t, tasks)

\* The rows stored for idea id, in the three tables.
RowsOf(id, i, en, e) ==
    <<IF id \in DOMAIN i THEN i[id] ELSE Unset,
      IF id \in DOMAIN en THEN en[id] ELSE Unset,
      IF id \in DOMAIN e THEN e[id] ELSE Unset>>

C22_Step ==
    /\ \A t \in InFlight :
         StepOf(t)
         => \A other \in IdeaIds \ {t.id} :
              RowsOf(other, ideas', enrichments', evaluations')
                = RowsOf(other, ideas, enrichments, evaluations)
    /\ \A u \in BagToSet(tasks') :
         (u.kind = "evaluate" /\ Pending(u) /\ CopiesIn(u, tasks') > CopiesIn(u, tasks))
         => u.enrichment = getEnrichment(u.id)

\* C22: a step of a task started for one idea leaves the ideas row, the
\* enrichment row and the evaluation row of every other idea as they were
\* (present and equal, or absent), and the enrichment an evaluate task is
\* started with is the record of its own idea.
C22_OtherIdeasUntouched == [][C22_Step]_vars

\* A task has completed on one idea, which is no longer pending, while a
\* task of another idea is in flight and that idea is still pending.
C22_OtherStillPending ==
    /\ LogsCompletion(ev)
    /\ ideas[ev.id].status # "pending"
    /\ \E other \in DOMAIN ideas \ {ev.id} :
         InFlightFor(other) = 1 /\ ideas[other].status = "pending"

\* The executor calls a closure of kind `kind` can have made, in order.
InvocationsOf(kind) ==
    CASE kind = "enrich" -> {<<"enrichIdea">>}
      [] kind = "evaluate" -> {<<"evaluateIdea">>}
      [] kind = "analyze" -> {<<"enrichIdea">>, <<"enrichIdea", "evaluateIdea">>}

C23_Step ==
    /\ \A u \in BagToSet(tasks') : u.invoked \in InvocationsOf(u.kind)
    /\ BagCardinality(tasks') <= BagCardinality(tasks) + 1
    /\ BagCardinality(tasks') > BagCardinality(tasks)
       => /\ BagCardinality(runs') = BagCardinality(runs) + 1
          /\ \E op \in RunOps : Answers(ev', op) /\ ev'.code = 200
    /\ \A t \in InFlight :
         (StepOf(t) /\ t.pc \in {"enrichIdea", "evaluateIdea"} /\ ev' # Quiet)
         => /\ LogsFailure(ev', t.pc)
            /\ ev'.kind = t.kind /\ ev'.id = t.id
            /\ ev'.invoked = t.invoked
            /\ ev'.invoked \in InvocationsOf(t.kind)
            /\ tasks' = tasks (-) SetToBag({t})
            /\ runs' = runs
    /\ (LogsFailure(ev', "enrichIdea") \/ LogsFailure(ev', "evaluateIdea"))
       => /\ BagCardinality(tasks') = BagCardinality(tasks) - 1
          /\ ev'.invoked[Len(ev'.invoked)] = ev'.error

\* C23: a task has called the enrichment executor at most once and the
\* evaluation executor at most once, each accepted run request starts one
\* task and nothing else starts one, and the step in which an executor call
\* of a task fails ends that task, with the failed call its last, and starts
\* no task.
C23_NoRetry == [][C23_Step]_vars

\* The evaluation executor has failed in the only run of an idea, a full
\* pipeline: each executor was called once and nothing is in flight.
C23_FailedOnce ==
    /\ LogsFailure(ev, "evaluateIdea") /\ ev.kind = "analyze"
    /\ ev.invoked = <<"enrichIdea", "evaluateIdea">>
    /\ CopiesIn(ev.id, runs) = 1
    /\ InFlight = {}

C24_Step ==
    /\ \A t \in InFlight :
         StepOf(t)
         => /\ ev'.type # "response"
            /\ (BagCardinality(tasks') < BagCardinality(tasks))
               => (ev'.type = "log" /\ ev'.id = t.id)
    /\ ev'.type = "response"
       => \A t \in InFlight : CopiesIn(t, tasks') >= CopiesIn(t, tasks)

\* C24: when every call a task awaits returns or fails in the end, the tasks
\* in flight all end (run requests being finitely many), each in the step
\* that logs its completion or its failure; no step that answers a request
\* ends a task, and a task leaves the await it stands at only in a step of
\* its own.
C24_TasksEnd ==
    /\ (InFlight # {}) ~> (InFlight = {})
    /\ [][C24_Step]_vars

\* Every accepted run has ended, one in completion and one, on another idea
\* that is still pending, in failure.
C24_AllEnded ==
    /\ InFlight = {}
    /\ TotalRuns = MaxRuns
    /\ LogsCompletion(ev)
    /\ \E a \in DOMAIN ideas \ {ev.id} :
         CopiesIn(a, runs) = 1 /\ ideas[a].status = "pending"

C25_Step ==
    /\ \A t \in InFlight :
         (StepOf(t) /\ LogsCompletion(ev'))
         => /\ ideas'[t.id].status = ev'.status
            /\ ideas'[t.id].updated_at > ideas[t.id].updated_at
    /\ \A id \in DOMAIN ideas :
         \/ ideas'[id] = ideas[id]
         \/ /\ ideas'[id].updated_at > ideas[id].updated_at
            /\ LogsCompletion(ev') /\ ev'.id = id
    /\ (ev'.type = "log" /\ ~ev'.ok)
       => /\ ideas' = ideas
          /\ "ideas" \notin {ev'.wrote[k] : k \in DOMAIN ev'.wrote}

\* C25: the step in which a task writes an idea's status also sets the
\* idea's updated_at to a later time; a row of ideas changes in no other way,
\* and the step in which a task fails, which comes before any status write
\* of that task, leaves every idea's status and updated_at as they were.
C25_StatusWriteRefreshes == [][C25_Step]_vars

\* An evaluate task has failed at its evaluation upsert on an idea that an
\* enrich run had set to enriched: the idea's updated_at is that of the one
\* status write.
C25_FailedBeforeStatusWrite ==
    /\ LogsFailure(ev, "saveEvaluation") /\ ev.kind = "evaluate"
    /\ ideas[ev.id].status = "enriched"
    /\ ideas[ev.id].updated_at = 1
    /\ InFlight = {}

\* The columns of an ideas row that are set at creation.
CreationColumns(row) ==
    <<row.source, row.raw_text, row.context, row.project_hint, row.created_at>>

C26_Step ==
    /\ \A id \in DOMAIN ideas :
         /\ id \in DOMAIN ideas'
         /\ CreationColumns(ideas'[id]) = CreationColumns(ideas[id])
    /\ DOMAIN enrichments \subseteq DOMAIN enrichments'
    /\ DOMAIN evaluations \subseteq DOMAIN evaluations'
    /\ \A t \in InFlight :
         StepOf(t) => DOMAIN ideas' = DOMAIN ideas

\* C26: every step leaves each stored idea stored under its id with the
\* source, raw_text, context, project_hint and created_at it had, so that a
\* step can change status and updated_at only; no step removes a row of
\* idea_enrichment or idea_evaluation, and no step of a task adds an idea.
C26_CreationColumnsStand == [][C26_Step]_vars

\* An idea's status has been written twice, by two runs, and the idea has
\* the text, context and creation time it was created with.
C26_AsCreatedAfterTwoRuns ==
    \E id \in DOMAIN ideas :
      /\ ideas[id].updated_at = 2
      /\ CopiesIn(id, runs) = 2
      /\ ideas[id].raw_text = "Build a tool"
      /\ ideas[id].context = "side project"
      /\ ideas[id].created_at = 0
      /\ id \in DOMAIN enrichments

\* The step is a step of a GET handler.
ReadStep ==
    \/ reads' # reads
    \/ Answers(ev', "getIdea")
    \/ Answers(ev', "listIdeas")

\* C27 as stated: GET steps leave the store as it was, a getIdea request for
\* an unknown id is answered 404, and the idea row, the enrichment record
\* and the evaluation record of a 200 answer are the ones stored when the
\* answer is given.
C27_AnswersCurrentRecords ==
    [][/\ ReadStep => store' = store
       /\ (Answers(ev', "getIdea") /\ ev'.id \notin DOMAIN ideas) => ev'.code = 404
       /\ \A id \in DOMAIN ideas :
            (Answers(ev', "getIdea") /\ ev'.id = id)
            => /\ ev'.code = 200
               /\ ev'.idea = IdeaRow(id)'
               /\ ev'.enrichment = getEnrichment(id)'
               /\ ev'.evaluation = getEvaluation(id)'
      ]_vars

C27_Step ==
    /\ ReadStep => /\ store' = store
                   /\ tasks' = tasks
                   /\ runs' = runs
    /\ Answers(ev', "getIdea")
       => IF ev'.id \notin DOMAIN ideas
          THEN ev'.code = 404 /\ reads' = reads
          ELSE /\ ev'.code = 200
               /\ \E r \in reads :
                    /\ r.op = "getIdea" /\ r.id = ev'.id
                    /\ reads' = reads \ {r}
                    /\ ev'.idea = r.rows[r.id]
                    /\ ev'.enrichment = r.enrichment[r.id]
                    /\ r.enrichment[r.id] # Unread
               /\ ev'.evaluation = getEvaluation(ev'.id)
               /\ ev'.evaluation = Unset <=> ev'.id \notin DOMAIN evaluations
               /\ ev'.enrichment # Unset => ev'.id \in DOMAIN enrichments
    /\ \A r \in reads' \ reads :
         r.op = "getIdea"
         => \/ /\ r.id \in DOMAIN ideas
               /\ r.rows = (r.id :> IdeaRow(r.id))
               /\ r.enrichment[r.id] = Unread
               /\ r \in {Read("getIdea", r.id, r.rows)}
            \/ \E q \in reads \ reads' :
                 /\ q.op = "getIdea" /\ q.id = r.id /\ q.rows = r.rows
                 /\ q.enrichment[q.id] = Unread
                 /\ r.enrichment[r.id] = getEnrichment(r.id)
                 /\ r.evaluation = q.evaluation

\* C27 (amended): GET steps leave the store, the tasks and the runs as they
\* were; a getIdea request for an unknown id is answered 404 at once; for a
\* stored idea the handler reads the idea row, then the enrichment record,
\* then the evaluation record, each as stored at the step of that read (null
\* when absent), and answers 200 with the three in the step of the last
\* read, so that the evaluation of the answer is the one stored then.
C27_AnswersWhatItRead == [][C27_Step]_vars

\* A getIdea request was answered with the idea row as read while the idea
\* was pending, together with an evaluation stored after that read: the
\* idea has a routed status by now.
C27_RowOlderThanRecords ==
    /\ Answers(ev, "getIdea") /\ ev.code = 200
    /\ ev.idea.status = "pending"
    /\ ev.evaluation # Unset
    /\ ideas[ev.id].status \notin {"pending", "enriched"}

ListAnswered(r) ==
    /\ r.op = "listIdeas"
    /\ reads' = reads \ {r}
    /\ DOMAIN ev'.ideas = DOMAIN r.rows
    /\ \A k \in DOMAIN r.rows :
         /\ ev'.ideas[k].status = r.rows[k].status
         /\ ev'.ideas[k].raw_text = r.rows[k].raw_text
         /\ ev'.ideas[k].evaluation_score = r.rows[k].evaluation_score
         /\ ev'.ideas[k].enrichment = r.enrichment[k]
         /\ r.enrichment[k] # Unread
         /\ ev'.ideas[k].evaluation =
              IF r.evaluation[k] = Unread THEN getEvaluation(k) ELSE r.evaluation[k]
    /\ Cardinality({k \in DOMAIN r.rows : r.evaluation[k] = Unread}) = 1

C28_Step ==
    /\ Answers(ev', "listIdeas")
       => /\ ev'.code = 200
          /\ ev'.total = Cardinality(DOMAIN ev'.ideas)
          /\ DOMAIN ev'.ideas \subseteq DOMAIN ideas
          /\ \/ DOMAIN ideas = {} /\ DOMAIN ev'.ideas = {} /\ reads' = reads
             \/ \E r \in reads : ListAnswered(r)
          /\ filteredIdeas(ev'.ideas, "all") = ev'.ideas
          /\ \A filter \in Statuses :
               /\ DOMAIN filteredIdeas(ev'.ideas, filter)
                    = {k \in DOMAIN ev'.ideas : ev'.ideas[k].status = filter}
               /\ \A k \in DOMAIN filteredIdeas(ev'.ideas, filter) :
                    filteredIdeas(ev'.ideas, filter)[k] = ev'.ideas[k]
    /\ \A r \in reads' \ reads :
         r.op = "listIdeas"
         => \/ /\ r \in {Read("listIdeas", r.id, r.rows)}
               /\ DOMAIN r.rows = DOMAIN ideas /\ DOMAIN ideas # {}
               /\ \A k \in DOMAIN ideas : r.rows[k] = JoinedRow(k)
            \/ \E q \in reads \ reads' :
                 /\ q.op = "listIdeas" /\ q.rows = r.rows
                 /\ \A k \in DOMAIN r.rows :
                      /\ r.enrichment[k] # q.enrichment[k]
                         => (q.enrichment[k] = Unread
                               /\ r.enrichment[k] = getEnrichment(k))
                      /\ r.evaluation[k] # q.evaluation[k]
                         => (q.evaluation[k] = Unread
                               /\ r.evaluation[k] = getEvaluation(k))

RecordsOf(kind) ==
    CASE kind = "enrich" -> <<"idea_enrichment">>
      [] kind = "evaluate" -> <<"idea_evaluation">>
      [] kind = "analyze" -> <<"idea_enrichment", "idea_evaluation">>

C29_Step ==
    /\ \A id \in DOMAIN ideas :
         ideas'[id] # ideas[id]
         => /\ ev'.type = "log"
            /\ \E t \in InFlight :
                 /\ StepOf(t) /\ t.id = id
                 /\ t.pc = "updateStatus"
                 /\ t.wrote = RecordsOf(t.kind)
                 /\ id \in DOMAIN enrichments
                 /\ t.kind # "enrich" => id \in DOMAIN evaluations
    /\ ev'.type = "response"
       => \A id \in DOMAIN ideas : ideas'[id] = ideas[id]
    /\ \A id \in DOMAIN ideas' \ DOMAIN ideas : ideas'[id].status = "pending"
    /\ \A t \in InFlight :
         t.wrote # RecordsOf(t.kind) => ~(StepOf(t) /\ ideas' # ideas)

\* C29: the row of a stored idea, its status with it, changes only in a
\* step of a task of that idea that stands at its status update, having
\* upserted the record of each stage it ran (the records being stored); a
\* step that answers a request changes the row of no stored idea, the row a
\* create request adds is pending, and a task that has not yet upserted its
\* records changes no row.
C29_StatusAfterRecords == [][C29_Step]_vars

\* A full pipeline has completed: it wrote the enrichment, the evaluation
\* and then the idea's row, which has a routed status.
C29_RecordsThenStatus ==
    /\ LogsCompletion(ev) /\ ev.kind = "analyze"
    /\ ev.wrote = <<"idea_enrichment", "idea_evaluation", "ideas">>
    /\ ideas[ev.id].status = ev.status
    /\ ev.status \in {"evaluated-ready", "deferred", "research", "archived"}

RoutedStatuses == {"evaluated-ready", "deferred", "research", "archived"}

\* C30: in every reachable state the status of each stored idea is one of
\* the six statuses; an enriched idea has an enrichment record, and an idea
\* with a routed status has an enrichment record and an evaluation record.
C30_StatusAndRecords ==
    \A id \in DOMAIN ideas :
      /\ ideas[id].status \in Statuses
      /\ ideas[id].status = "enriched" => id \in DOMAIN enrichments
      /\ ideas[id].status \in RoutedStatuses
         => id \in DOMAIN enrichments /\ id \in DOMAIN evaluations

\* One idea is enriched, with an enrichment record and no evaluation, and
\* another has a routed status and both records.
C30_EnrichedAndRouted ==
    \E a, b \in DOMAIN ideas :
      /\ ideas[a].status = "enriched"
      /\ a \in DOMAIN enrichments /\ a \notin DOMAIN evaluations
      /\ ideas[b].status \in RoutedStatuses
      /\ b \in DOMAIN enrichments /\ b \in DOMAIN evaluations

\* C31: whenever no task is in flight for an idea and the idea has a routed
\* status, that status is the status mapping of routeIdea applied to the
\* evaluation record stored for the idea.
C31_RoutedAsStored ==
    \A id \in DOMAIN ideas :
      (InFlightFor(id) = 0 /\ ideas[id].status \in RoutedStatuses)
      => /\ id \in DOMAIN evaluations
         /\ ideas[id].status =
              StatusForRoute(routeIdea(getEvaluation(id).evaluationScore,
                                       getEvaluation(id).recommendation))


\* C31: whenever no task is in flight for an idea and the idea has a routed
\* status, an evaluation record is stored for it, and the status is the
\* status mapping of routeIdea applied to that record when the record has
\* been upserted once (evaluated_at is the time of the first upsert).
C31_RoutedAsFirstUpsert ==
    \A id \in DOMAIN ideas :
      (InFlightFor(id) = 0 /\ ideas[id].status \in RoutedStatuses)
      => /\ id \in DOMAIN evaluations
         /\ evaluations[id].evaluated_at = 1
            => ideas[id].status =
                 StatusForRoute(routeIdea(getEvaluation(id).evaluationScore,
                                          getEvaluation(id).recommendation))

\* Two runs of one idea are over, one evaluation upsert among them: the idea
\* is deferred and the stored evaluation scores 85 with "skip".
C31_TwoRunsOneUpsert ==
    \E id \in DOMAIN ideas :
      /\ CopiesIn(id, runs) = 2 /\ InFlightFor(id) = 0
      /\ id \in DOMAIN evaluations
      /\ evaluations[id].evaluated_at = 1
      /\ getEvaluation(id).evaluationScore = 85
      /\ ideas[id].status = "deferred"


\* The step in which evaluate task t saves its evaluation.
SavesEvaluation(t) ==
    /\ t.kind = "evaluate" /\ t.pc = "saveEvaluation"
    /\ Wrote(t, "idea_evaluation")

C32_Original_Step ==
    \A t \in InFlight : SavesEvaluation(t) => t.enrichment = getEnrichment(t.id)

\* C32 as stated: in the step in which an evaluate task saves its evaluation,
\* the enrichment the evaluation was computed from is the enrichment record
\* stored for the idea.
C32_SavedFromStoredEnrichment == [][C32_Original_Step]_vars

C32_Step ==
    /\ \A u \in BagToSet(tasks') :
         (u.kind = "evaluate" /\ CopiesIn(u, tasks') > CopiesIn(u, tasks)
            /\ u.pc = "evaluateIdea")
         => /\ Answers(ev', "evaluate") /\ ev'.code = 200 /\ ev'.id = u.id
            /\ u.enrichment # Unset
            /\ u.enrichment = getEnrichment(u.id)
    /\ \A t \in InFlight :
         (t.kind = "evaluate" /\ t.pc = "evaluateIdea" /\ StepOf(t) /\ ~Ends(t))
         => \E u \in BagToSet(tasks') :
              /\ tasks' = Replace(t, u)
              /\ u.pc = "saveEvaluation"
              /\ u.enrichment = t.enrichment
    /\ \A t \in InFlight :
         SavesEvaluation(t)
         => /\ t.enrichment \in EnrichmentOutputs
            /\ getEvaluation(t.id)'.evaluationScore = t.evaluation.evaluationScore
            /\ getEnrichment(t.id) \in EnrichmentOutputs
            /\ enrichments[t.id].enriched_at = 1
               => t.enrichment = getEnrichment(t.id)

\* C32: an evaluate task starts with the enrichment record stored when its
\* request is acknowledged, holds that snapshot through its evaluation
\* executor call, and saves the evaluation made from it whatever the store
\* holds by then; the snapshot is the stored enrichment record at the save
\* when the idea's enrichment has been upserted once.
C32_SavedFromSnapshot == [][C32_Step]_vars

\* An evaluate task has saved its evaluation, the one now stored, and stands
\* at its status update; the enrichment it was made from is not the stored
\* enrichment record, which an overlapping run has upserted a second time.
C32_SavedAfterReplacement ==
    \E t \in InFlight :
      /\ t.kind = "evaluate" /\ t.pc = "updateStatus"
      /\ t.wrote = <<"idea_evaluation">>
      /\ evaluations[t.id].evaluated_at = 1
      /\ getEvaluation(t.id).evaluationScore = t.evaluation.evaluationScore
      /\ enrichments[t.id].enriched_at = 2
      /\ t.enrichment \in EnrichmentOutputs \ {getEnrichment(t.id)}


\* C33 as stated: whenever no task is in flight for an idea and the idea has
\* an enrichment record, its status is not pending.
C33_EnrichedNotPending ==
    \A id \in DOMAIN ideas :
      (InFlightFor(id) = 0 /\ id \in DOMAIN enrichments)
      => ideas[id].status # "pending"

\* Idea id is at rest, pending, with an enrichment record.
RestsPendingWithRecord(id) ==
    /\ id \in DOMAIN ideas /\ id \in DOMAIN enrichments
    /\ InFlightFor(id) = 0
    /\ ideas[id].status = "pending"

C33_Step ==
    /\ \A id \in DOMAIN ideas :
         (RestsPendingWithRecord(id)' /\ ~RestsPendingWithRecord(id))
         => /\ ev'.type = "log" /\ ~ev'.ok /\ ev'.id = id
            /\ ideas' = ideas
    /\ \A t \in InFlight :
         (Ends(t) /\ LogsCompletion(ev'))
         => /\ ideas'[t.id].status # "pending"
            /\ t.id \in DOMAIN enrichments'
    /\ \A t \in InFlight :
         (t.kind = "analyze" /\ t.pc = "evaluateIdea" /\ Ends(t)
            /\ ideas[t.id].status = "pending")
         => /\ LogsFailure(ev', "evaluateIdea")
            /\ ideas'[t.id].status = "pending"
            /\ t.id \in DOMAIN enrichments'
            /\ InFlightFor(t.id) = 1 => RestsPendingWithRecord(t.id)'

\* C33: an idea comes to rest pending with an enrichment record only in a
\* step in which a task on it ends in its catch block, which leaves the
\* ideas table as it was; a task that completes leaves its idea not pending
\* and with an enrichment record; and a full-pipeline task whose evaluation
\* executor fails on a pending idea leaves it pending with the enrichment
\* record stored, at rest when no other task of the idea is in flight.
C33_PendingWithRecordAfterFailure == [][C33_Step]_vars

\* The only run of an idea, a full pipeline, has ended at its failed
\* evaluation executor after its enrichment upsert: nothing is in flight,
\* the enrichment record is stored and the idea is pending.
C33_EnrichedThenEvaluationFailed ==
    /\ LogsFailure(ev, "evaluateIdea") /\ ev.kind = "analyze"
    /\ ev.wrote = <<"idea_enrichment">>
    /\ SoleRunOver(ev.id)
    /\ RestsPendingWithRecord(ev.id)


C34_Step ==
    /\ \A t \in InFlight :
         (t.kind = "analyze" /\ StepOf(t) /\ ideas' # ideas)
         => /\ t.pc = "updateStatus" /\ Ends(t)
            /\ t.wrote = <<"idea_enrichment", "idea_evaluation">>
            /\ t.id \in DOMAIN enrichments /\ t.id \in DOMAIN evaluations
            /\ ideas'[t.id].status \in RoutedStatuses
            /\ ideas'[t.id].status = newStatus(RouteOf(t))
    /\ \A t \in InFlight :
         (t.kind = "analyze" /\ CopiesIn(t.id, runs) = 1)
         => /\ ideas[t.id].status = "pending"
            /\ ideas[t.id].updated_at = ideas[t.id].created_at
            /\ StepOf(t) => ideas'[t.id].status \in RoutedStatuses \cup {"pending"}

\* C34: a full-pipeline task changes the ideas table only in the step that
\* ends it, after it has upserted both records, and the status it writes is
\* the routed status of its evaluation, never enriched; while the only run
\* of an idea is a full pipeline in flight the idea is pending, its row as
\* created, and each step of the task leaves it pending or routed.
C34_StatusWrittenOnceAtTheEnd == [][C34_Step]_vars

\* The only run of an idea, a full pipeline, has completed: the idea has a
\* routed status and its row has been written once since it was created.
C34_RoutedInOneWrite ==
    /\ LogsCompletion(ev) /\ ev.kind = "analyze"
    /\ ev.wrote = <<"idea_enrichment", "idea_evaluation", "ideas">>
    /\ SoleRunOver(ev.id)
    /\ ideas[ev.id].status \in RoutedStatuses
    /\ ideas[ev.id].updated_at = ideas[ev.id].created_at + 1


\* The fields of an evaluation record that have a column of their own.
StoredFields ==
    {"jtbdAnalysis", "disruptionScore", "capabilitiesFit", "recommendation",
     "caseStudyMatches", "evaluationScore"}

C35_Step ==
    \A id \in IdeaIds :
      /\ (call'.fn = "saveEnrichment" /\ call'.id = id)
         => getEnrichment(id)' = call'.enrichment
      /\ ~(call'.fn = "saveEnrichment" /\ call'.id = id)
         => getEnrichment(id)' = getEnrichment(id)
      /\ (call'.fn = "getEnrichment" /\ call'.id = id)
         => /\ call'.returned = getEnrichment(id)
            /\ (call.fn = "saveEnrichment" /\ call.id = id)
               => call'.returned = call.enrichment
      /\ (call'.fn = "saveEvaluation" /\ call'.id = id)
         => /\ \A f \in StoredFields : getEvaluation(id)'[f] = call'.evaluation[f]
            /\ getEvaluation(id)'.rationale = call'.evaluation.jtbdAnalysis
      /\ ~(call'.fn = "saveEvaluation" /\ call'.id = id)
         => getEvaluation(id)' = getEvaluation(id)
      /\ (call'.fn = "getEvaluation" /\ call'.id = id)
         => /\ call'.returned = getEvaluation(id)
            /\ (call.fn = "saveEvaluation" /\ call.id = id)
               => /\ \A f \in StoredFields : call'.returned[f] = call.evaluation[f]
                  /\ call'.returned.rationale = call.evaluation.jtbdAnalysis
                  /\ call.evaluation.rationale # call.evaluation.jtbdAnalysis
                     => call'.returned # call.evaluation

\* C35: saveEnrichment of record r for an idea makes getEnrichment of the
\* idea r, every step that is no saveEnrichment of the idea leaves it so, and
\* getEnrichment returns it; saveEvaluation of record e makes getEvaluation
\* of the idea e on the six fields that have a column, with rationale equal
\* to e.jtbdAnalysis, every step that is no saveEvaluation of the idea leaves
\* it so, and getEvaluation returns it: not e when e.rationale is another
\* text than e.jtbdAnalysis.
C35_RoundTrip == [][C35_Step]_vars

\* getEvaluation has returned, for an idea whose evaluation was saved twice
\* and whose enrichment is stored with its optional searchVolume, a record
\* with two case studies whose rationale is its jtbdAnalysis, "job".
C35_ReturnedAfterSecondSave ==
    /\ call.fn = "getEvaluation"
    /\ call.returned # Unset
    /\ call.returned.rationale = "job"
    /\ call.returned.caseStudyMatches = <<"steel", "disk">>
    /\ evaluations[call.id].evaluated_at = 2
    /\ call.id \in DOMAIN enrichments
    /\ "searchVolume" \in DOMAIN getEnrichment(call.id).marketValidation


\* The step in which the UI sends an analyze fetch for idea id.
Issues(id) ==
    /\ Len(ui'.posts) = Len(ui.posts) + 1
    /\ ui'.posts[Len(ui'.posts)].id = id

\* An analyze fetch sent by the card now rendered for idea id awaits its
\* acknowledgment.
AwaitsAck(id) == \E i \in DOMAIN ui.posts : ui.posts[i].id = id /\ ui.posts[i].live

C36_Step ==
    /\ \A id \in DOMAIN ui.cards : ui.cards[id] <=> AwaitsAck(id)
    /\ \A id \in IdeaIds :
         Issues(id)
         => /\ id \in DOMAIN ui.cards /\ ~isLoading
            /\ ui.ideas[id] = "pending"
            /\ ~ui.cards[id] /\ ~AwaitsAck(id)
            /\ ui'.cards[id] /\ AwaitsAck(id)'
    /\ \A i \in DOMAIN ui.posts :
         (ui'.posts = SubSeq(ui.posts, 1, i - 1) \o SubSeq(ui.posts, i + 1, Len(ui.posts))
            /\ ui.posts[i].live
            /\ ui'.acked[ui.posts[i].id] = ui.acked[ui.posts[i].id] + 1)
         => /\ ui.cards[ui.posts[i].id]
            /\ ~ui'.cards[ui.posts[i].id]
            /\ ui'.ideas = ui.ideas

\* C36: a card shows isAnalyzing exactly while an analyze fetch it sent
\* awaits its acknowledgment; the UI sends an analyze fetch for an idea only
\* from a rendered card that shows the status pending and has no such fetch
\* waiting; the acknowledgment of the fetch clears isAnalyzing of the card
\* and leaves the list shown, the card's pending with it, as it is.
C36_GuardedUntilAcknowledged == [][C36_Step]_vars

C36_Original_Step ==
    /\ C36_Step
    /\ \A id \in IdeaIds : Issues(id) => InFlightFor(id) = 0

\* C36 as stated: the UI sends an analyze fetch for an idea only while the
\* status shown is pending and no fetch of that card awaits its
\* acknowledgment, the acknowledgment releases the guard, and no analyze
\* fetch is sent for an idea that has a full-pipeline task in flight.
C36_NoSecondWhileInFlight == [][C36_Original_Step]_vars

\* The UI has sent a second analyze fetch for an idea after the
\* acknowledgment of the first, whose task is still in flight: the card
\* shows pending, as the store has it.
C36_SecondWhileInFlight ==
    \E id \in DOMAIN ui.cards :
      /\ ui.acked[id] = 1 /\ AwaitsAck(id)
      /\ CopiesIn(id, runs) = 1 /\ InFlightFor(id) = 1
      /\ ui.cards[id]
      /\ ui.ideas[id] = "pending" /\ ideas[id].status = "pending"

=============================================================================
